---- MODULE Spec2Model ----
(***************************************************************************)
(* A model of the consensus-critical parts of the node:                    *)
(*   - BlockDB: the transactional columnar store and its header cache      *)
(*   - BlockValidator: block self-consistency and kernel-sum validation    *)
(*   - SignatureUtil: partial / aggregate Schnorr signatures of a slate    *)
(*   - TorControlClient: the request / response loop of the control port   *)
(*   - Server::Run: startup, main loop and teardown of the components      *)
(*   - WalletManager: the operations of a wallet session                   *)
(*   - FullBlock: the validation flag of the block objects                 *)
(* Each part has its own specification (SpecDB, SpecValidator, SpecSig,    *)
(* SpecTor, SpecServer, SpecWallet, SpecFullBlock); the variables of the   *)
(* other parts stay at their idle values.                                  *)
(***************************************************************************)
EXTENDS Integers, Sequences, FiniteSets, TLC

VARIABLES
    \* ---- BlockDB ----
    transactional,        \* m_pRocksDB->IsTransactional()
    db,                   \* the committed rows of every column family
    txn,                  \* the write batch of the open transaction
    m_blockHeadersCache,  \* hashes of the headers held by the in-memory cache
    m_uncommitted,        \* BlockDB::m_uncommitted, a vector of headers
    dbOps,                \* number of BlockDB calls made so far
    lastOp,               \* the last BlockDB call and how it ended
    txnStartView,         \* what every getter returned when the transaction began
    txnExpected,          \* txnStartView with the writes of the transaction applied
    txnHeaders,           \* headers written since the last Commit / Rollback
    \* ---- BlockValidator / FullBlock ----
    fullBlock,            \* the FullBlock handed to the validator
    m_validated,          \* FullBlock::m_validated
    startedValidated,     \* m_validated when the block reached the validator
    vLast,                \* the last validator call and how it ended
    \* ---- SignatureUtil ----
    secrets,              \* each participant's secret key and secret nonce
    sigs,                 \* the SlateSignature list the participants sign over
    message,              \* the message the participants sign
    otherSigs,            \* the excess and nonce of each entry of the list verified
    otherMessage,         \* the message verified
    sLast,                \* the last SignatureUtil call and its result
    \* ---- TorControlClient ----
    torConnected,         \* the call of Connect: how it ended and what it returned
    torPc,                \* where the call of Invoke stands
    torRequest,           \* the request handed to Invoke
    written,              \* the requests written to the socket
    linesRead,            \* the raw lines read from the socket by this call
    response,             \* the local vector of Invoke
    torOutcome,           \* how Invoke ended
    deadlines,            \* the timeouts handed to the socket calls so far
    raised,               \* the exception raised inside the try block of Invoke
    \* ---- Server ----
    SHUTDOWN,             \* the process-wide flag
    runPc,                \* where Server::Run stands
    step,                 \* the next statement of the startup or of the teardown
    live,                 \* each component: "none", "live" or "down"
    done,                 \* the teardown statements executed, in order
    status,               \* the sync status last shown
    iterations,           \* the passes of the main loop completed, up to MaxIterations
    afterShutdown,        \* the refreshes and sleeps begun since the flag was set
    handled,              \* what CtrlHandler returned last
    \* ---- WalletManager ----
    wallets,              \* the usernames that have a wallet in the wallet database
    sessions,             \* the session manager's map: live token -> username
    issued,               \* the number of tokens issued so far
    wLast,                \* the last WalletManager call: what it called, how it ended
    \* ---- FullBlock objects ----
    objects,              \* each FullBlock object: constructed or not, and its m_validated
    bLast                 \* the last operation on a FullBlock object

dbVars == <<transactional, db, txn, m_blockHeadersCache, m_uncommitted, dbOps,
            lastOp, txnStartView, txnExpected, txnHeaders>>

validatorVars == <<fullBlock, m_validated, startedValidated, vLast>>

sigVars == <<secrets, sigs, message, otherSigs, otherMessage, sLast>>

torVars == <<torConnected, torPc, torRequest, written, linesRead, response, torOutcome,
            deadlines, raised>>

serverVars == <<SHUTDOWN, runPc, step, live, done, status, iterations, afterShutdown,
               handled>>

walletVars == <<wallets, sessions, issued, wLast>>

blockVars == <<objects, bLast>>

vars == <<dbVars, validatorVars, sigVars, torVars, serverVars, walletVars, blockVars>>

otherThanDB == <<validatorVars, sigVars, torVars, serverVars, walletVars, blockVars>>
otherThanValidator == <<dbVars, sigVars, torVars, serverVars, walletVars, blockVars>>
otherThanSig == <<dbVars, validatorVars, torVars, serverVars, walletVars, blockVars>>
otherThanTor == <<dbVars, validatorVars, sigVars, serverVars, walletVars, blockVars>>
otherThanServer == <<dbVars, validatorVars, sigVars, torVars, walletVars, blockVars>>
otherThanWallet == <<dbVars, validatorVars, sigVars, torVars, serverVars, blockVars>>
otherThanFullBlock == <<dbVars, validatorVars, sigVars, torVars, serverVars, walletVars>>

Null == "null"          \* nullptr / no row / no value

\* The validator is not in use.
ValidatorIdle ==
    /\ fullBlock = Null
    /\ m_validated = FALSE
    /\ startedValidated = FALSE
    /\ vLast = Null

\* SignatureUtil is not in use.
SigIdle ==
    /\ secrets = <<>>
    /\ sigs = <<>>
    /\ message = 0
    /\ otherSigs = <<>>
    /\ otherMessage = 0
    /\ sLast = Null

\* Server::Run is not called.
ServerIdle ==
    /\ SHUTDOWN = FALSE
    /\ runPc = "off"
    /\ step = 0
    /\ live = Null
    /\ done = <<>>
    /\ status = Null
    /\ iterations = 0
    /\ afterShutdown = Null
    /\ handled = Null

\* There is no WalletManager.
WalletIdle ==
    /\ wallets = {}
    /\ sessions = <<>>
    /\ issued = 0
    /\ wLast = Null

\* No FullBlock object is followed.
FullBlockIdle ==
    /\ objects = <<>>
    /\ bLast = Null

\* There is no TorControlClient.
TorIdle ==
    /\ torConnected = "none"
    /\ torPc = "off"
    /\ torRequest = Null
    /\ written = <<>>
    /\ linesRead = <<>>
    /\ response = <<>>
    /\ torOutcome = Null
    /\ deadlines = {}
    /\ raised = Null

(***************************************************************************)
(*                               BlockDB                                   *)
(***************************************************************************)

\* Number of BlockDB calls explored in one run.
MaxDbOps == 4

Hashes == {"h1", "h2"}
Commitments == {"c1"}
SumsValues == {"s1", "s2"}
Locations == {"p1"}
Keys == Hashes \cup Commitments

Columns == {"BLOCK", "HEADER", "BLOCK_SUMS", "OUTPUT_POS", "SPENT_OUTPUTS"}

NoWrite == "nowrite"    \* the write batch does not touch the key
Deleted == "deleted"    \* the write batch deletes the key

\* The lists of SpentOutput handed to AddSpentPositions.
SpentLists ==
    {<<>>,
     <<[commitment |-> "c1", location |-> "p1"]>>,
     <<[commitment |-> "c1", location |-> "p1"], [commitment |-> "c2", location |-> "p1"]>>}

UINT16_MAX == 65535

\* SpentOutputs::BuildMap: the commitment -> location pairs of a list.
BuildMap(list) == {<<list[i].commitment, list[i].location>> : i \in DOMAIN list}

EmptyRows == [col \in Columns |-> [k \in Keys |-> Null]]
EmptyBatch == [col \in Columns |-> [k \in Keys |-> NoWrite]]

\* RocksDB::Put of several entries (key -> value): into the write batch of the transaction,
\* or straight into the column when there is no transaction.
RocksPut(store, col, entries) ==
    IF store.transactional
    THEN [store EXCEPT !.txn[col] =
             [k \in Keys |-> IF k \in DOMAIN entries THEN entries[k] ELSE @[k]]]
    ELSE [store EXCEPT !.db[col] =
             [k \in Keys |-> IF k \in DOMAIN entries THEN entries[k] ELSE @[k]]]

\* RocksDB::Delete of several keys.
RocksDelete(store, col, keys) ==
    IF store.transactional
    THEN [store EXCEPT !.txn[col] =
             [k \in Keys |-> IF k \in keys THEN Deleted ELSE @[k]]]
    ELSE [store EXCEPT !.db[col] =
             [k \in Keys |-> IF k \in keys THEN Null ELSE @[k]]]

\* RocksDB::DeleteAll: every key of the column.
RocksDeleteAll(store, col) == RocksDelete(store, col, Keys)

\* RocksDB::Get: a transaction reads its own writes.
RocksGet(col, key) ==
    IF transactional /\ txn[col][key] # NoWrite
    THEN (IF txn[col][key] = Deleted THEN Null ELSE txn[col][key])
    ELSE db[col][key]

\* The rows after the write batch is applied: every column family at once.
ApplyBatch(rows, batch) ==
    [col \in Columns |-> [k \in Keys |->
        IF batch[col][k] = NoWrite THEN rows[col][k]
        ELSE IF batch[col][k] = Deleted THEN Null
        ELSE batch[col][k]]]

Store == [transactional |-> transactional, db |-> db, txn |-> txn]

SetStore(store) ==
    /\ db' = store.db
    /\ txn' = store.txn
    /\ UNCHANGED transactional

\* ---- getters ----

GetBlockHeader(hash) ==
    IF hash \in m_blockHeadersCache
    THEN hash
    ELSE RocksGet("HEADER", hash)

GetBlock(hash) == RocksGet("BLOCK", hash)

GetBlockSums(blockHash) == RocksGet("BLOCK_SUMS", blockHash)

GetOutputPosition(outputCommitment) == RocksGet("OUTPUT_POS", outputCommitment)

\* The two ways GetSpentPositions ends: it throws, or it returns a map.
DATABASE_EXCEPTION == [threw |-> "DatabaseException", map |-> {}]
SpentMap(map) == [threw |-> Null, map |-> map]

\* GetSpentPositions that returns an empty map for a block without entry.
GetSpentPositions_EmptyWhenMissing(blockHash) ==
    IF RocksGet("SPENT_OUTPUTS", blockHash) = Null
    THEN SpentMap({})
    ELSE SpentMap(BuildMap(RocksGet("SPENT_OUTPUTS", blockHash)))

GetSpentPositions(blockHash) ==
    IF RocksGet("SPENT_OUTPUTS", blockHash) = Null
    THEN DATABASE_EXCEPTION
    ELSE SpentMap(BuildMap(RocksGet("SPENT_OUTPUTS", blockHash)))

\* What every getter returns for every key.
View ==
    [block  |-> [h \in Hashes |-> GetBlock(h)],
     header |-> [h \in Hashes |-> GetBlockHeader(h)],
     sums   |-> [h \in Hashes |-> GetBlockSums(h)],
     pos    |-> [c \in Commitments |-> GetOutputPosition(c)],
     spent  |-> [h \in Hashes |-> GetSpentPositions(h)]]

\* The rows of the HEADER column that are committed.
CommittedHeaders == {h \in Hashes : db["HEADER"][h] # Null}

NoHeaders == [single |-> {}, bulk |-> {}]

DBOpen ==
    /\ transactional \in BOOLEAN
    /\ db = EmptyRows
    /\ txn = EmptyBatch
    /\ m_blockHeadersCache = {}
    /\ m_uncommitted = <<>>
    /\ dbOps = 0
    /\ lastOp = [op |-> "Open", ok |-> TRUE, headers |-> NoHeaders, expect |-> Null]
    /\ txnStartView = [block  |-> [h \in Hashes |-> Null],
                       header |-> [h \in Hashes |-> Null],
                       sums   |-> [h \in Hashes |-> Null],
                       pos    |-> [c \in Commitments |-> Null],
                       spent  |-> [h \in Hashes |-> DATABASE_EXCEPTION]]
    /\ txnExpected = txnStartView
    /\ txnHeaders = NoHeaders

\* One BlockDB call.
DbStep ==
    /\ dbOps < MaxDbOps
    /\ dbOps' = dbOps + 1
    /\ UNCHANGED otherThanDB

Called(op) ==
    /\ DbStep
    /\ lastOp' = [op |-> op, ok |-> TRUE, headers |-> NoHeaders, expect |-> Null]

\* ---- Commit / Rollback ----

\* The store commit succeeds: the batch reaches every column, then the
\* uncommitted headers are cached.
CommitOk ==
    /\ DbStep
    /\ UNCHANGED transactional
    /\ db' = ApplyBatch(db, txn)
    /\ txn' = EmptyBatch
    /\ m_blockHeadersCache' =
           m_blockHeadersCache \cup {m_uncommitted[i] : i \in DOMAIN m_uncommitted}
    /\ m_uncommitted' = <<>>
    /\ lastOp' = [op |-> "Commit", ok |-> TRUE, headers |-> txnHeaders,
                  expect |-> txnExpected]
    /\ txnStartView' = View'
    /\ txnExpected' = View'
    /\ txnHeaders' = NoHeaders

\* The store commit throws: nothing after m_pRocksDB->Commit() runs.
CommitFails ==
    /\ transactional
    /\ DbStep
    /\ lastOp' = [op |-> "Commit", ok |-> FALSE, headers |-> txnHeaders,
                  expect |-> Null]
    /\ UNCHANGED <<transactional, db, txn, m_blockHeadersCache, m_uncommitted,
                   txnStartView, txnExpected, txnHeaders>>

Commit == CommitOk \/ CommitFails

\* Rollback that clears the list and leaves the write batch in place.
Rollback_KeepsBatch ==
    /\ DbStep
    /\ lastOp' = [op |-> "Rollback", ok |-> TRUE, headers |-> txnHeaders,
                  expect |-> txnStartView]
    /\ m_uncommitted' = <<>>
    /\ UNCHANGED <<transactional, db, txn, m_blockHeadersCache>>
    /\ txnStartView' = View'
    /\ txnExpected' = View'
    /\ txnHeaders' = NoHeaders

Rollback ==
    /\ DbStep
    /\ lastOp' = [op |-> "Rollback", ok |-> TRUE, headers |-> txnHeaders,
                  expect |-> txnStartView]
    /\ m_uncommitted' = <<>>
    /\ txn' = EmptyBatch
    /\ UNCHANGED <<transactional, db, m_blockHeadersCache>>
    /\ txnStartView' = View'
    /\ txnExpected' = View'
    /\ txnHeaders' = NoHeaders

\* ---- writes ----

\* The bookkeeping of a write: the getters are now expected to return `expected`.
Wrote(expected, headers) ==
    /\ txnExpected' = expected
    /\ txnHeaders' = headers
    /\ UNCHANGED txnStartView

\* AddBlockHeader without the IsTransactional() test: the header is cached at once.
AddBlockHeader_CacheAtOnce(pBlockHeader) ==
    /\ Called("AddBlockHeader")
    /\ SetStore(RocksPut(Store, "HEADER", [k \in {pBlockHeader} |-> k]))
    /\ m_blockHeadersCache' = m_blockHeadersCache \cup {pBlockHeader}
    /\ UNCHANGED m_uncommitted
    /\ Wrote([txnExpected EXCEPT !.header[pBlockHeader] = pBlockHeader],
             [txnHeaders EXCEPT !.single = @ \cup {pBlockHeader}])

\* AddBlockHeader that forgets the header in a transaction.
AddBlockHeader_NotTracked(pBlockHeader) ==
    /\ Called("AddBlockHeader")
    /\ SetStore(RocksPut(Store, "HEADER", [k \in {pBlockHeader} |-> k]))
    /\ IF transactional
       THEN UNCHANGED <<m_uncommitted, m_blockHeadersCache>>
       ELSE /\ m_blockHeadersCache' = m_blockHeadersCache \cup {pBlockHeader}
            /\ UNCHANGED m_uncommitted
    /\ Wrote([txnExpected EXCEPT !.header[pBlockHeader] = pBlockHeader],
             [txnHeaders EXCEPT !.single = @ \cup {pBlockHeader}])

AddBlockHeader(pBlockHeader) ==
    /\ Called("AddBlockHeader")
    /\ SetStore(RocksPut(Store, "HEADER", [k \in {pBlockHeader} |-> k]))
    /\ IF transactional
       THEN /\ m_uncommitted' = Append(m_uncommitted, pBlockHeader)
            /\ UNCHANGED m_blockHeadersCache
       ELSE /\ m_blockHeadersCache' = m_blockHeadersCache \cup {pBlockHeader}
            /\ UNCHANGED m_uncommitted
    /\ Wrote([txnExpected EXCEPT !.header[pBlockHeader] = pBlockHeader],
             [txnHeaders EXCEPT !.single = @ \cup {pBlockHeader}])

\* blockHeaders is a set here: the entries are put in one call, and two entries
\* of one header are the same row.
AddBlockHeaders(blockHeaders) ==
    /\ Called("AddBlockHeaders")
    /\ SetStore(RocksPut(Store, "HEADER", [k \in blockHeaders |-> k]))
    /\ UNCHANGED <<m_uncommitted, m_blockHeadersCache>>
    /\ Wrote([txnExpected EXCEPT !.header =
                 [h \in Hashes |-> IF h \in blockHeaders THEN h ELSE @[h]]],
             [txnHeaders EXCEPT !.bulk = @ \cup blockHeaders])

AddBlock(block) ==
    /\ Called("AddBlock")
    /\ SetStore(RocksPut(Store, "BLOCK", [k \in {block} |-> k]))
    /\ UNCHANGED <<m_uncommitted, m_blockHeadersCache>>
    /\ Wrote([txnExpected EXCEPT !.block[block] = block], txnHeaders)

AddBlockSums(blockHash, blockSums) ==
    /\ Called("AddBlockSums")
    /\ SetStore(RocksPut(Store, "BLOCK_SUMS", [k \in {blockHash} |-> blockSums]))
    /\ UNCHANGED <<m_uncommitted, m_blockHeadersCache>>
    /\ Wrote([txnExpected EXCEPT !.sums[blockHash] = blockSums], txnHeaders)

AddOutputPosition(outputCommitment, location) ==
    /\ Called("AddOutputPosition")
    /\ SetStore(RocksPut(Store, "OUTPUT_POS", [k \in {outputCommitment} |-> location]))
    /\ UNCHANGED <<m_uncommitted, m_blockHeadersCache>>
    /\ Wrote([txnExpected EXCEPT !.pos[outputCommitment] = location], txnHeaders)

RemoveOutputPositions(outputCommitments) ==
    /\ Called("RemoveOutputPositions")
    /\ SetStore(RocksDelete(Store, "OUTPUT_POS", outputCommitments))
    /\ UNCHANGED <<m_uncommitted, m_blockHeadersCache>>
    /\ Wrote([txnExpected EXCEPT !.pos =
                 [c \in Commitments |-> IF c \in outputCommitments THEN Null ELSE @[c]]],
             txnHeaders)

AddSpentPositions(blockHash, outputPositions) ==
    /\ Len(outputPositions) < UINT16_MAX
    /\ DbStep
    /\ lastOp' = [op |-> "AddSpentPositions", ok |-> TRUE, headers |-> NoHeaders,
                  expect |-> [blockHash |-> blockHash,
                              outputPositions |-> outputPositions]]
    /\ SetStore(RocksPut(Store, "SPENT_OUTPUTS", [k \in {blockHash} |-> outputPositions]))
    /\ UNCHANGED <<m_uncommitted, m_blockHeadersCache>>
    /\ Wrote([txnExpected EXCEPT !.spent[blockHash] = SpentMap(BuildMap(outputPositions))],
             txnHeaders)

ClearSpentPositions ==
    /\ Called("ClearSpentPositions")
    /\ SetStore(RocksDeleteAll(Store, "SPENT_OUTPUTS"))
    /\ UNCHANGED <<m_uncommitted, m_blockHeadersCache>>
    /\ Wrote([txnExpected EXCEPT !.spent = [h \in Hashes |-> DATABASE_EXCEPTION]],
             txnHeaders)

NextDB ==
    \/ \E h \in Hashes : AddBlockHeader(h)
    \/ \E hs \in SUBSET Hashes : AddBlockHeaders(hs)
    \/ \E h \in Hashes : AddBlock(h)
    \/ \E h \in Hashes, s \in SumsValues : AddBlockSums(h, s)
    \/ \E c \in Commitments, p \in Locations : AddOutputPosition(c, p)
    \/ \E cs \in SUBSET Commitments : RemoveOutputPositions(cs)
    \/ \E h \in Hashes, l \in SpentLists : AddSpentPositions(h, l)
    \/ ClearSpentPositions
    \/ Commit
    \/ Rollback

InitDB == DBOpen /\ ValidatorIdle /\ SigIdle /\ TorIdle /\ ServerIdle /\ WalletIdle /\ FullBlockIdle

SpecDB == InitDB /\ [][NextDB]_vars

\* What every getter returns to a reader outside the transaction: the header
\* cache, then the committed rows.
CommittedView ==
    [block  |-> [h \in Hashes |-> db["BLOCK"][h]],
     header |-> [h \in Hashes |->
                    IF h \in m_blockHeadersCache THEN h ELSE db["HEADER"][h]],
     sums   |-> [h \in Hashes |-> db["BLOCK_SUMS"][h]],
     pos    |-> [c \in Commitments |-> db["OUTPUT_POS"][c]],
     spent  |-> [h \in Hashes |->
                    IF db["SPENT_OUTPUTS"][h] = Null THEN DATABASE_EXCEPTION
                    ELSE SpentMap(BuildMap(db["SPENT_OUTPUTS"][h]))]]

\* C1: on a transactional BlockDB every cached header is a committed row of
\* HEADER, whatever AddBlockHeader, Commit (succeeding or failing) and Rollback
\* were called; and right after a Rollback, GetBlockHeader returns null for
\* every header that is not committed, and no header waits to be cached.
C1_CachedHeadersAreCommitted ==
    transactional =>
        /\ m_blockHeadersCache \subseteq CommittedHeaders
        /\ lastOp.op = "Rollback" =>
               /\ m_uncommitted = <<>>
               /\ \A h \in Hashes \ CommittedHeaders : GetBlockHeader(h) = Null

\* A header is cached and committed, and another one, added by AddBlockHeader,
\* has just been rolled back.
C1_Witness ==
    /\ transactional
    /\ lastOp.op = "Rollback"
    /\ m_blockHeadersCache # {}
    /\ lastOp.headers.single \ CommittedHeaders # {}

\* C2 as stated: after a successful Commit every header written since the last
\* Commit or Rollback, by AddBlockHeader or by AddBlockHeaders, is cached, and
\* the list of uncommitted headers is empty.
C2_Original ==
    (lastOp.op = "Commit" /\ lastOp.ok) =>
        /\ (lastOp.headers.single \cup lastOp.headers.bulk) \subseteq m_blockHeadersCache
        /\ m_uncommitted = <<>>

\* C2 amended: after a successful Commit every header written by AddBlockHeader
\* since the last successful Commit or Rollback is cached, every header written
\* by AddBlockHeaders is a committed row of HEADER (cached or not), and the list
\* of uncommitted headers is empty.
C2_WriteThroughOnCommit ==
    (lastOp.op = "Commit" /\ lastOp.ok) =>
        /\ lastOp.headers.single \subseteq m_blockHeadersCache
        /\ (lastOp.headers.single \cup lastOp.headers.bulk) \subseteq CommittedHeaders
        /\ m_uncommitted = <<>>

\* A transaction that wrote one header with AddBlockHeader and another with
\* AddBlockHeaders has just committed; the second one is not cached.
C2_Witness ==
    /\ transactional
    /\ lastOp.op = "Commit" /\ lastOp.ok
    /\ lastOp.headers.single # {}
    /\ lastOp.headers.bulk \ m_blockHeadersCache # {}

\* C3: a transaction is all-or-nothing across the column families. Outside the
\* transaction no write of it is visible before Commit; right after Rollback
\* every getter returns what it returned when the transaction began; right
\* after a successful Commit every getter returns the start values with all the
\* writes of the transaction applied.
C3_AllOrNothing ==
    transactional =>
        /\ CommittedView = txnStartView
        /\ lastOp.op = "Rollback" => View = lastOp.expect
        /\ (lastOp.op = "Commit" /\ lastOp.ok) =>
               (View = lastOp.expect /\ CommittedView = lastOp.expect)

\* A transaction that wrote to BLOCK, HEADER and BLOCK_SUMS has just committed.
C3_WitnessCommit ==
    /\ transactional
    /\ lastOp.op = "Commit" /\ lastOp.ok
    /\ \E h \in Hashes : db["BLOCK"][h] # Null
    /\ \E h \in Hashes : db["HEADER"][h] # Null
    /\ \E h \in Hashes : db["BLOCK_SUMS"][h] # Null

\* The blocks for which SPENT_OUTPUTS has no entry, as the caller sees it.
SpentMissing == {h \in Hashes : txnExpected.spent[h] = DATABASE_EXCEPTION}

\* C18: GetSpentPositions(h) returns the map built from the list most recently
\* stored by AddSpentPositions(h, list), an empty map when the list was empty,
\* and throws a DatabaseException whenever there is no entry for h: never
\* stored, or removed by ClearSpentPositions.
C18_SpentRoundTrip ==
    /\ \A h \in Hashes : GetSpentPositions(h) = txnExpected.spent[h]
    /\ \A h \in SpentMissing : GetSpentPositions(h) = DATABASE_EXCEPTION
    /\ lastOp.op = "AddSpentPositions" =>
          /\ GetSpentPositions(lastOp.expect.blockHash)
                 = SpentMap(BuildMap(lastOp.expect.outputPositions))
          /\ lastOp.expect.blockHash \notin SpentMissing
    /\ lastOp.op = "ClearSpentPositions" => SpentMissing = Hashes

\* An empty list was stored over a list of two entries: the getter returns the
\* empty map for that block and throws for the other one.
C18_Witness ==
    /\ lastOp.op = "AddSpentPositions"
    /\ lastOp.expect.outputPositions = <<>>
    /\ GetSpentPositions(lastOp.expect.blockHash) = SpentMap({})
    /\ \E h \in Hashes : GetSpentPositions(h) = DATABASE_EXCEPTION
    /\ dbOps >= 2

\* ClearSpentPositions removed an entry that was stored.
SpentClearedAfterStore ==
    /\ lastOp.op = "ClearSpentPositions"
    /\ dbOps >= 2
    /\ \E h \in Hashes : txnStartView.spent[h] # DATABASE_EXCEPTION

(***************************************************************************)
(*                    Crypto: Pedersen commitments                         *)
(***************************************************************************)

\* The order of the group of commitments (a prime; the curve order scaled).
GroupOrder == 10007

\* uint64_t, scaled to WordBits bits.
WordBits == 3
UINT64_MOD == 2 ^ WordBits
UINT64_MAX == UINT64_MOD - 1

\* Consensus::REWARD, scaled.
REWARD == 2

\* The commitment v*H + r*G, as its pair of coefficients.
Point(v, r) == <<v % GroupOrder, r % GroupOrder>>

ZeroPoint == <<0, 0>>

AddPoint(p, q) == <<(p[1] + q[1]) % GroupOrder, (p[2] + q[2]) % GroupOrder>>

NegPoint(p) == <<(GroupOrder - p[1]) % GroupOrder, (GroupOrder - p[2]) % GroupOrder>>

RECURSIVE SumPoints(_)
SumPoints(ps) ==
    IF ps = <<>> THEN ZeroPoint ELSE AddPoint(Head(ps), SumPoints(Tail(ps)))

\* Crypto::AddCommitments: the sum of `positive` minus the sum of `negative`.
AddCommitments(positive, negative) ==
    AddPoint(SumPoints(positive), NegPoint(SumPoints(negative)))

\* Crypto::CommitTransparent(uint64_t value): value*H with a zero blinding factor.
CommitTransparent(value) == Point(value, 0)

\* The point at infinity is no commitment: a Crypto call whose result it would
\* be fails (InvalidPoint).
InvalidPoint(p) == p = ZeroPoint

RECURSIVE SumScalars(_)
SumScalars(xs) ==
    IF xs = <<>> THEN 0 ELSE (Head(xs) + SumScalars(Tail(xs))) % GroupOrder

\* Crypto::AddBlindingFactors: the sum of `positive` minus the sum of `negative`.
AddBlindingFactors(positive, negative) ==
    (SumScalars(positive) + GroupOrder - SumScalars(negative)) % GroupOrder

(***************************************************************************)
(*                      FullBlock and BlockValidator                       *)
(***************************************************************************)

MaxKernels == 2
MaxHeight == 2

Heights == 0 .. MaxHeight
Fees == {0, 1, UINT64_MAX}
Offsets == {0, 1}

\* How TransactionBodyValidator::Validate ends for the body of a block.
BodyOutcomes ==
    {"ok", "BadDataException", "CryptoException", "DeserializationException",
     "std::exception"}

SeqsUpTo(S, n) == UNION {[1 .. k -> S] : k \in 0 .. n}

Kernel(coinbase, fee, lockHeight, excess) ==
    [coinbase |-> coinbase, fee |-> fee, lockHeight |-> lockHeight, excess |-> excess]

Output(coinbase, commitment) == [coinbase |-> coinbase, commitment |-> commitment]

Block(height, offset, inputs, outputs, kernels, body) ==
    [height |-> height, totalKernelOffset |-> offset, inputs |-> inputs,
     outputs |-> outputs, kernels |-> kernels, body |-> body]

\* Blocks whose kernels differ in lock height only.
LockBlocks ==
    {Block(h, 0, <<>>, <<>>, ks, "ok") :
        h \in Heights,
        ks \in SeqsUpTo({Kernel(FALSE, 0, l, Point(0, 1)) : l \in Heights}, MaxKernels)}

\* Outputs worth REWARD or REWARD + 1, marked coinbase or not.
SomeOutputs == {Output(cb, Point(v, 1)) : cb \in BOOLEAN, v \in {REWARD, REWARD + 1}}

\* No output, one output, two outputs.
OutputLists ==
    {<<>>} \cup {<<o>> : o \in SomeOutputs} \cup {<<o, p>> : o, p \in SomeOutputs}

\* Blocks whose outputs and kernels differ in the coinbase mark, the value and the fee.
CoinbaseBlocks ==
    {Block(1, 0, <<>>, outs, ks, "ok") :
        outs \in OutputLists,
        ks \in SeqsUpTo({Kernel(cb, fee, 0, Point(0, 1)) :
                            cb \in BOOLEAN, fee \in Fees}, MaxKernels)}

\* Blocks of one coinbase output and one coinbase kernel, which pass or fail each check.
FlowBlocks ==
    {Block(1, off, ins, <<Output(TRUE, Point(REWARD + v, 1))>>,
           <<Kernel(TRUE, fee, l, Point(0, 1))>>, body) :
        off \in Offsets, ins \in {<<>>, <<Point(1, 0)>>}, v \in {0, 1},
        fee \in {0, 1}, l \in Heights, body \in BodyOutcomes}

\* Blocks with one coinbase kernel whose excess is not a public key x*G but the
\* negated commitment to the reward, -(REWARD + fee)*H.
CraftedBlocks ==
    {Block(1, 0, <<>>, outs,
           <<Kernel(TRUE, fee, 0, NegPoint(Point(REWARD + fee, 0)))>>, "ok") :
        outs \in {<<>>, <<Output(FALSE, Point(REWARD, 1))>>}, fee \in {0, 1}}

Blocks == LockBlocks \cup CoinbaseBlocks \cup FlowBlocks \cup CraftedBlocks

Commitment_s(elements) == [i \in DOMAIN elements |-> elements[i].commitment]
Excesses(kernels) == [i \in DOMAIN kernels |-> kernels[i].excess]
IsCoinbase(x) == x.coinbase

\* ---- BlockValidator, the version that throws ----

\* VerifyBody: whatever the body validator throws becomes a BadDataException.
VerifyBody(blk) ==
    IF blk.body = "ok" THEN Null ELSE "BadDataException"

\* VerifyKernelLockHeights with >= in place of >.
VerifyKernelLockHeights_OffByOne(blk) ==
    IF \E i \in DOMAIN blk.kernels : blk.kernels[i].lockHeight >= blk.height
    THEN "BadDataException"
    ELSE Null

VerifyKernelLockHeights(blk) ==
    LET blockHeight == blk.height
        invalid == \E i \in DOMAIN blk.kernels : blk.kernels[i].lockHeight > blockHeight
    IN IF invalid THEN "BadDataException" ELSE Null

\* std::accumulate over the kernels, from Consensus::REWARD, in uint64_t.
RECURSIVE AccumulateFees(_, _)
AccumulateFees(kernels, reward) ==
    IF kernels = <<>> THEN reward
    ELSE AccumulateFees(Tail(kernels), (reward + Head(kernels).fee) % UINT64_MOD)

\* VerifyCoinbase that has nothing to check in a block without coinbase.
VerifyCoinbase_SkipsNoCoinbase(blk) ==
    IF /\ SelectSeq(blk.outputs, IsCoinbase) = <<>>
       /\ SelectSeq(blk.kernels, IsCoinbase) = <<>>
    THEN Null
    ELSE "BadDataException"

VerifyCoinbase(blk) ==
    LET coinbaseCommitments == Commitment_s(SelectSeq(blk.outputs, IsCoinbase))
        coinbaseKernelExcesses == Excesses(SelectSeq(blk.kernels, IsCoinbase))
        reward == AccumulateFees(blk.kernels, REWARD)
        overCommitment == <<CommitTransparent(reward)>>
        outputAdjustedSum == AddCommitments(coinbaseCommitments, overCommitment)
        kernelSum == AddCommitments(coinbaseKernelExcesses, <<>>)
    IN IF InvalidPoint(CommitTransparent(reward)) THEN "CryptoException"
       ELSE IF InvalidPoint(outputAdjustedSum) THEN "CryptoException"
       ELSE IF InvalidPoint(kernelSum) THEN "CryptoException"
       ELSE IF kernelSum # outputAdjustedSum THEN "BadDataException"
       ELSE Null

\* ---- BlockValidator, the version that returns bool ----

RECURSIVE Old_VerifyKernelLockHeights(_, _)
Old_VerifyKernelLockHeights(kernels, height) ==
    IF kernels = <<>> THEN TRUE
    ELSE IF Head(kernels).lockHeight > height THEN FALSE
    ELSE Old_VerifyKernelLockHeights(Tail(kernels), height)

Old_VerifyCoinbase(blk) ==
    LET coinbaseCommitments == Commitment_s(SelectSeq(blk.outputs, IsCoinbase))
        coinbaseKernelExcesses == Excesses(SelectSeq(blk.kernels, IsCoinbase))
        reward == AccumulateFees(blk.kernels, REWARD)
        pRewardCommitment == CommitTransparent(reward)
        overCommitment == <<pRewardCommitment>>
        pOutputAdjustedSum == AddCommitments(coinbaseCommitments, overCommitment)
        pKernelSum == AddCommitments(coinbaseKernelExcesses, <<>>)
    IN IF InvalidPoint(pRewardCommitment) THEN FALSE
       ELSE IF InvalidPoint(pOutputAdjustedSum) \/ InvalidPoint(pKernelSum) THEN FALSE
       ELSE pKernelSum = pOutputAdjustedSum

\* m_transactionPool.ValidateTransactionBody(body, true)
ValidateTransactionBody(blk) == blk.body = "ok"

Old_IsBlockSelfConsistent(blk) ==
    IF ~ValidateTransactionBody(blk) THEN FALSE
    ELSE IF ~Old_VerifyKernelLockHeights(blk.kernels, blk.height) THEN FALSE
    ELSE IF ~Old_VerifyCoinbase(blk) THEN FALSE
    ELSE TRUE

\* TODO: Implement
Old_VerifyKernelSums(blk, overage, kernelOffset) == TRUE

\* The kernel offset IsBlockValid hands to VerifyKernelSums.
Old_BlockKernelOffset(blk, previousKernelOffset) ==
    IF blk.totalKernelOffset = previousKernelOffset
    THEN AddBlindingFactors(<<blk.totalKernelOffset>>, <<previousKernelOffset>>)
    ELSE 0

\* The kernel offsets handed to VerifyKernelSums by a call of IsBlockValid: none
\* when the call returns before it.
Old_HandedToVerifyKernelSums(blk, previousKernelOffset, validateSelfConsistent) ==
    IF validateSelfConsistent /\ ~Old_IsBlockSelfConsistent(blk) THEN <<>>
    ELSE <<Old_BlockKernelOffset(blk, previousKernelOffset)>>

Old_IsBlockValid(blk, previousKernelOffset, validateSelfConsistent) ==
    IF validateSelfConsistent /\ ~Old_IsBlockSelfConsistent(blk) THEN FALSE
    ELSE IF ~Old_VerifyKernelSums(blk, 0 - REWARD,
                                  Old_BlockKernelOffset(blk, previousKernelOffset))
    THEN FALSE
    ELSE TRUE

\* ---- calls ----

NoCall ==
    [op |-> "none", result |-> TRUE, exception |-> Null, checks |-> <<>>,
     arg |-> Null, before |-> FALSE]

ValidatorStart ==
    /\ fullBlock \in Blocks
    /\ m_validated \in BOOLEAN
    /\ startedValidated = m_validated
    /\ vLast = NoCall

\* How a call ended: its result (for a void function, whether it returned), the
\* exception it threw, the checks it ran, and m_validated when it was made.
Returned(op, result, exception, checks, arg) ==
    [op |-> op, result |-> result, exception |-> exception, checks |-> checks,
     arg |-> arg, before |-> m_validated]

AllChecks == <<"VerifyBody", "VerifyKernelLockHeights", "VerifyCoinbase">>

\* VerifySelfConsistent that marks the block before the coinbase check.
VerifySelfConsistent_MarksEarly ==
    /\ UNCHANGED <<fullBlock, startedValidated>>
    /\ UNCHANGED otherThanValidator
    /\ IF m_validated
       THEN /\ vLast' = Returned("VerifySelfConsistent", TRUE, Null, <<>>, Null)
            /\ UNCHANGED m_validated
       ELSE IF VerifyBody(fullBlock) # Null
       THEN /\ vLast' = Returned("VerifySelfConsistent", FALSE, VerifyBody(fullBlock),
                                 SubSeq(AllChecks, 1, 1), Null)
            /\ UNCHANGED m_validated
       ELSE IF VerifyKernelLockHeights(fullBlock) # Null
       THEN /\ vLast' = Returned("VerifySelfConsistent", FALSE,
                                 VerifyKernelLockHeights(fullBlock),
                                 SubSeq(AllChecks, 1, 2), Null)
            /\ UNCHANGED m_validated
       ELSE /\ vLast' = Returned("VerifySelfConsistent", VerifyCoinbase(fullBlock) = Null,
                                 VerifyCoinbase(fullBlock), AllChecks, Null)
            /\ m_validated' = TRUE

VerifySelfConsistent ==
    /\ UNCHANGED <<fullBlock, startedValidated>>
    /\ UNCHANGED otherThanValidator
    /\ IF m_validated
       THEN /\ vLast' = Returned("VerifySelfConsistent", TRUE, Null, <<>>, Null)
            /\ UNCHANGED m_validated
       ELSE IF VerifyBody(fullBlock) # Null
       THEN /\ vLast' = Returned("VerifySelfConsistent", FALSE, VerifyBody(fullBlock),
                                 SubSeq(AllChecks, 1, 1), Null)
            /\ UNCHANGED m_validated
       ELSE IF VerifyKernelLockHeights(fullBlock) # Null
       THEN /\ vLast' = Returned("VerifySelfConsistent", FALSE,
                                 VerifyKernelLockHeights(fullBlock),
                                 SubSeq(AllChecks, 1, 2), Null)
            /\ UNCHANGED m_validated
       ELSE IF VerifyCoinbase(fullBlock) # Null
       THEN /\ vLast' = Returned("VerifySelfConsistent", FALSE, VerifyCoinbase(fullBlock),
                                 AllChecks, Null)
            /\ UNCHANGED m_validated
       ELSE /\ vLast' = Returned("VerifySelfConsistent", TRUE, Null, AllChecks, Null)
            /\ m_validated' = TRUE

\* A call of a check that leaves the block as it is.
PureCall(op, result, exception, arg) ==
    /\ vLast' = Returned(op, result, exception, <<>>, arg)
    /\ UNCHANGED <<fullBlock, m_validated, startedValidated>>
    /\ UNCHANGED otherThanValidator

CallVerifyKernelLockHeights ==
    PureCall("VerifyKernelLockHeights", VerifyKernelLockHeights(fullBlock) = Null,
             VerifyKernelLockHeights(fullBlock), Null)

CallVerifyCoinbase ==
    PureCall("VerifyCoinbase", VerifyCoinbase(fullBlock) = Null,
             VerifyCoinbase(fullBlock), Null)

CallOld_VerifyKernelLockHeights ==
    PureCall("Old_VerifyKernelLockHeights",
             Old_VerifyKernelLockHeights(fullBlock.kernels, fullBlock.height), Null, Null)

CallOld_VerifyCoinbase ==
    PureCall("Old_VerifyCoinbase", Old_VerifyCoinbase(fullBlock), Null, Null)

CallOld_IsBlockValid(previousKernelOffset, validateSelfConsistent) ==
    PureCall("Old_IsBlockValid",
             Old_IsBlockValid(fullBlock, previousKernelOffset, validateSelfConsistent),
             Null,
             [previousKernelOffset |-> previousKernelOffset,
              validateSelfConsistent |-> validateSelfConsistent,
              handed |-> Old_HandedToVerifyKernelSums(fullBlock, previousKernelOffset,
                                                      validateSelfConsistent)])

NextValidator ==
    \/ VerifySelfConsistent
    \/ CallVerifyKernelLockHeights
    \/ CallVerifyCoinbase
    \/ CallOld_VerifyKernelLockHeights
    \/ CallOld_VerifyCoinbase
    \/ \E prev \in Offsets, flag \in BOOLEAN : CallOld_IsBlockValid(prev, flag)

DBClosed ==
    /\ transactional = FALSE
    /\ db = Null
    /\ txn = Null
    /\ m_blockHeadersCache = {}
    /\ m_uncommitted = <<>>
    /\ dbOps = 0
    /\ lastOp = Null
    /\ txnStartView = Null
    /\ txnExpected = Null
    /\ txnHeaders = Null

InitValidator == ValidatorStart /\ DBClosed /\ SigIdle /\ TorIdle /\ ServerIdle /\ WalletIdle /\ FullBlockIdle

SpecValidator == InitValidator /\ [][NextValidator]_vars

\* ---- what the validator is required to decide ----

\* Every kernel of the block has lock_height <= the height of the block.
LockHeightsWithinHeight(blk) ==
    \A i \in DOMAIN blk.kernels : blk.kernels[i].lockHeight <= blk.height

\* The sum of the fees of the kernels, as an integer.
RECURSIVE TotalFees(_)
TotalFees(kernels) ==
    IF kernels = <<>> THEN 0 ELSE Head(kernels).fee + TotalFees(Tail(kernels))

\* (I6) the coinbase outputs sum to the coinbase kernels plus (REWARD + fees)*H.
CoinbaseSumsEqual(blk) ==
    SumPoints(Commitment_s(SelectSeq(blk.outputs, IsCoinbase)))
        = AddPoint(SumPoints(Excesses(SelectSeq(blk.kernels, IsCoinbase))),
                   Point(REWARD + TotalFees(blk.kernels), 0))

\* (I1) outputs - inputs - (REWARD + fees)*H = kernel excesses + offset*G, for
\* the offset of this block alone.
KernelSumIdentity(blk, previousKernelOffset) ==
    AddCommitments(Commitment_s(blk.outputs),
                   blk.inputs \o <<Point(REWARD + TotalFees(blk.kernels), 0)>>)
        = AddPoint(SumPoints(Excesses(blk.kernels)),
                   Point(0, blk.totalKernelOffset + GroupOrder - previousKernelOffset))

\* C4: a block IsBlockValid reports valid, with or without the self-consistency
\* pass, satisfies the commitment-sum identity (I1).
C4_AcceptedBlocksBalance ==
    (vLast.op = "Old_IsBlockValid" /\ vLast.result) =>
        KernelSumIdentity(fullBlock, vLast.arg.previousKernelOffset)

\* C5: VerifyKernelLockHeights accepts a block exactly when every kernel has
\* lock_height <= the block height; the throwing version rejects with BadData,
\* the boolean version with false.
C5_LockHeights ==
    /\ vLast.op = "VerifyKernelLockHeights" =>
          /\ (vLast.exception = Null) <=> LockHeightsWithinHeight(fullBlock)
          /\ vLast.exception \in {Null, "BadDataException"}
    /\ vLast.op = "Old_VerifyKernelLockHeights" =>
          (vLast.result <=> LockHeightsWithinHeight(fullBlock))

\* A block of two kernels, one within the height and one beyond it, is rejected.
C5_Witness ==
    /\ vLast.op = "VerifyKernelLockHeights"
    /\ vLast.exception = "BadDataException"
    /\ \E i, j \in DOMAIN fullBlock.kernels :
          /\ fullBlock.kernels[i].lockHeight <= fullBlock.height
          /\ fullBlock.kernels[j].lockHeight > fullBlock.height

\* C6: VerifyCoinbase (either version) accepts a block exactly when the sum of
\* its coinbase outputs equals the sum of its coinbase kernel excesses plus the
\* commitment to REWARD + the fees of all kernels.
C6_CoinbaseIffSumsEqual ==
    /\ vLast.op = "VerifyCoinbase" =>
          ((vLast.exception = Null) <=> CoinbaseSumsEqual(fullBlock))
    /\ vLast.op = "Old_VerifyCoinbase" =>
          (vLast.result <=> CoinbaseSumsEqual(fullBlock))

\* The part of C6 that the code meets: when REWARD + fees fits uint64_t.
CoinbaseIffSumsEqual_WithinUint64 ==
    (REWARD + TotalFees(fullBlock.kernels) <= UINT64_MAX) => C6_CoinbaseIffSumsEqual

\* C7: VerifySelfConsistent runs no check on a block already marked; otherwise
\* it runs VerifyBody, VerifyKernelLockHeights, VerifyCoinbase in that order,
\* stops at the first that throws and leaves the flag unset, and sets the flag
\* only when all three returned. A block that started unmarked is marked only
\* if it passes all three checks.
C7_ValidatedOnlyAfterAllChecks ==
    /\ vLast.op = "VerifySelfConsistent" =>
          IF vLast.before
          THEN vLast.checks = <<>> /\ vLast.exception = Null /\ m_validated
          ELSE /\ \E n \in 1 .. 3 : vLast.checks = SubSeq(AllChecks, 1, n)
               /\ m_validated <=> (vLast.checks = AllChecks /\ vLast.exception = Null)
               /\ (Len(vLast.checks) > 1) => VerifyBody(fullBlock) = Null
               /\ (Len(vLast.checks) > 2) => VerifyKernelLockHeights(fullBlock) = Null
               /\ (vLast.exception = Null) => vLast.checks = AllChecks
               /\ (vLast.exception # Null) =>
                     \/ Len(vLast.checks) = 1 /\ VerifyBody(fullBlock) # Null
                     \/ Len(vLast.checks) = 2 /\ VerifyKernelLockHeights(fullBlock) # Null
                     \/ Len(vLast.checks) = 3 /\ VerifyCoinbase(fullBlock) # Null
    /\ (~startedValidated /\ m_validated) =>
          /\ VerifyBody(fullBlock) = Null
          /\ VerifyKernelLockHeights(fullBlock) = Null
          /\ VerifyCoinbase(fullBlock) = Null

\* A block that started unmarked passed the three checks, was marked, and a
\* second call returned without running a check.
C7_Witness ==
    /\ ~startedValidated
    /\ m_validated
    /\ vLast.op = "VerifySelfConsistent"
    /\ vLast.before
    /\ vLast.checks = <<>>
    /\ fullBlock.kernels # <<>>

\* C13: every failure of VerifySelfConsistent reaches the caller as a BadData
\* exception: of the body validator (whatever it throws), of the lock heights,
\* of the coinbase check; no other exception type escapes.
C13_OnlyBadDataEscapes ==
    (vLast.op = "VerifySelfConsistent" /\ vLast.exception # Null) =>
        vLast.exception = "BadDataException"

\* The part of C13 that the code meets: a failure of the body validator or of
\* the lock heights is raised as BadData, and so is a coinbase sum that differs.
BadDataUnlessCryptoFailsInCoinbase ==
    (vLast.op = "VerifySelfConsistent" /\ vLast.exception # Null) =>
        \/ vLast.exception = "BadDataException"
        \/ /\ vLast.checks = AllChecks
           /\ vLast.exception = "CryptoException"
           /\ \/ InvalidPoint(CommitTransparent(AccumulateFees(fullBlock.kernels, REWARD)))
              \/ InvalidPoint(SumPoints(Excesses(SelectSeq(fullBlock.kernels, IsCoinbase))))
              \/ InvalidPoint(AddCommitments(
                     Commitment_s(SelectSeq(fullBlock.outputs, IsCoinbase)),
                     <<CommitTransparent(AccumulateFees(fullBlock.kernels, REWARD))>>))

\* The body validator threw something other than BadData, and the caller got BadData.
BodyExceptionLifted ==
    /\ vLast.op = "VerifySelfConsistent"
    /\ fullBlock.body \in {"CryptoException", "DeserializationException", "std::exception"}
    /\ vLast.exception = "BadDataException"

\* C14: the kernel offset IsBlockValid hands to VerifyKernelSums is the offset
\* of this block alone, the header's total kernel offset minus
\* previousKernelOffset, for every pair of the two offsets.
C14_OffsetOfThisBlock ==
    vLast.op = "Old_IsBlockValid" =>
        \A i \in DOMAIN vLast.arg.handed :
            vLast.arg.handed[i] =
                (fullBlock.totalKernelOffset + GroupOrder - vLast.arg.previousKernelOffset)
                    % GroupOrder

\* What the code does: the offset handed to VerifyKernelSums is zero in every call.
HandedOffsetIsZero ==
    vLast.op = "Old_IsBlockValid" =>
        \A i \in DOMAIN vLast.arg.handed : vLast.arg.handed[i] = 0

HasCoinbaseOutput(blk) == \E i \in DOMAIN blk.outputs : blk.outputs[i].coinbase
HasCoinbaseKernel(blk) == \E i \in DOMAIN blk.kernels : blk.kernels[i].coinbase

\* The excess of every coinbase kernel is a public key x*G: it commits to no value.
CoinbaseExcessesArePublicKeys(blk) ==
    \A i \in DOMAIN blk.kernels :
        blk.kernels[i].coinbase => blk.kernels[i].excess[1] = 0

CoinbaseCallRejected ==
    /\ vLast.op \in {"VerifyCoinbase", "Old_VerifyCoinbase"}
    /\ ~vLast.result

\* C15 as stated: VerifyCoinbase rejects every block that has a coinbase output
\* but no coinbase kernel, a coinbase kernel but no coinbase output, or neither.
C15_Original ==
    (/\ vLast.op \in {"VerifyCoinbase", "Old_VerifyCoinbase"}
     /\ ~(HasCoinbaseOutput(fullBlock) /\ HasCoinbaseKernel(fullBlock)))
        => ~vLast.result

\* C15 amended: VerifyCoinbase rejects every block that has a coinbase output
\* but no coinbase kernel, and every block that has neither; it rejects a block
\* that has a coinbase kernel but no coinbase output when the excesses of its
\* coinbase kernels are public keys x*G.
C15_CoinbaseTogether ==
    (/\ vLast.op \in {"VerifyCoinbase", "Old_VerifyCoinbase"}
     /\ ~(HasCoinbaseOutput(fullBlock) /\ HasCoinbaseKernel(fullBlock))
     /\ CoinbaseExcessesArePublicKeys(fullBlock))
        => ~vLast.result

\* A block with a coinbase kernel and an output that is not marked coinbase was
\* rejected.
C15_Witness ==
    /\ CoinbaseCallRejected
    /\ vLast.op = "VerifyCoinbase"
    /\ HasCoinbaseKernel(fullBlock)
    /\ ~HasCoinbaseOutput(fullBlock)
    /\ fullBlock.outputs # <<>>
    /\ CoinbaseExcessesArePublicKeys(fullBlock)

\* A block with a coinbase output and no coinbase kernel was rejected.
CoinbaseOutputAloneRejected ==
    /\ CoinbaseCallRejected
    /\ HasCoinbaseOutput(fullBlock)
    /\ ~HasCoinbaseKernel(fullBlock)

\* C16: the value VerifyCoinbase commits with CommitTransparent is the exact
\* integer REWARD + the fees of all kernels, and a block for which that total
\* exceeds 2^64 - 1 is rejected.
C16_RewardFitsUint64 ==
    vLast.op \in {"VerifyCoinbase", "Old_VerifyCoinbase"} =>
        /\ AccumulateFees(fullBlock.kernels, REWARD)
               = REWARD + TotalFees(fullBlock.kernels)
        /\ REWARD + TotalFees(fullBlock.kernels) > UINT64_MAX => ~vLast.result

\* What the code does: the value committed is the total reduced modulo 2^64.
RewardIsReducedModulo ==
    vLast.op \in {"VerifyCoinbase", "Old_VerifyCoinbase"} =>
        AccumulateFees(fullBlock.kernels, REWARD)
            = (REWARD + TotalFees(fullBlock.kernels)) % UINT64_MOD

\* A block whose total exceeds 2^64 - 1 was accepted against the reduced total.
OverflowingBlockAccepted ==
    /\ vLast.op \in {"VerifyCoinbase", "Old_VerifyCoinbase"}
    /\ REWARD + TotalFees(fullBlock.kernels) > UINT64_MAX
    /\ vLast.result

(***************************************************************************)
(*                 Crypto: aggregate Schnorr signatures                    *)
(***************************************************************************)

\* The public key x*G of the scalar x, as its coefficient.
PubKey(x) == x % GroupOrder

\* Crypto::AddPublicKeys
RECURSIVE AddPublicKeys(_)
AddPublicKeys(keys) ==
    IF keys = <<>> THEN 0 ELSE (Head(keys) + AddPublicKeys(Tail(keys))) % GroupOrder

\* The challenge e = H(R_sum || P_sum || m). A collision-free hash: distinct
\* inputs below HashBase give distinct odd challenges.
HashBase == 7
Challenge(sumPubNonces, sumPubKeys, msg) ==
    2 * (sumPubNonces + HashBase * (sumPubKeys + HashBase * msg)) + 1

\* Crypto::CalculatePartialSignature: (R, s) with R = k*G and s = k + e*x.
CalculatePartialSignature(secretKey, secretNonce, sumPubKeys, sumPubNonces, msg) ==
    [R |-> PubKey(secretNonce),
     s |-> (secretNonce + Challenge(sumPubNonces, sumPubKeys, msg) * secretKey)
               % GroupOrder]

\* Crypto::VerifyPartialSignature: s*G = R + e*P for the signer's own key P.
VerifyPartialSignature(partialSignature, publicKey, sumPubKeys, sumPubNonces, msg) ==
    PubKey(partialSignature.s)
        = (partialSignature.R + Challenge(sumPubNonces, sumPubKeys, msg) * publicKey)
              % GroupOrder

RECURSIVE SumOfS(_)
SumOfS(signatures) ==
    IF signatures = <<>> THEN 0
    ELSE (Head(signatures).s + SumOfS(Tail(signatures))) % GroupOrder

\* Crypto::AggregateSignatures: (R_sum, the sum of the partial s).
Crypto_AggregateSignatures(signatures, sumPubNonces) ==
    [R |-> sumPubNonces, s |-> SumOfS(signatures)]

\* Crypto::VerifyAggregateSignature: s*G = R + e*P_sum.
Crypto_VerifyAggregateSignature(aggregateSignature, sumPubKeys, msg) ==
    PubKey(aggregateSignature.s)
        = (aggregateSignature.R
             + Challenge(aggregateSignature.R, sumPubKeys, msg) * sumPubKeys)
              % GroupOrder

(***************************************************************************)
(*                             SignatureUtil                               *)
(***************************************************************************)

MaxParticipants == 2

Scalars == {1, 2}
Messages == {0, 1}

\* std::optional
NoValue == [has_value |-> FALSE]
Some(v) == [has_value |-> TRUE, value |-> v]

SlateSignature(excess, nonce, partialOpt) ==
    [excess |-> excess, nonce |-> nonce, partialOpt |-> partialOpt]

PubExcesses(list) == [i \in DOMAIN list |-> list[i].excess]
PubNonces(list) == [i \in DOMAIN list |-> list[i].nonce]
HasPartial(sig) == sig.partialOpt.has_value
PartialOf(sig) == sig.partialOpt.value

\* GeneratePartialSignature that signs with the signer's own key and nonce in
\* place of the sums.
GeneratePartialSignature_OwnOnly(secretKey, secretNonce, list, msg) ==
    CalculatePartialSignature(secretKey, secretNonce, PubKey(secretKey),
                              PubKey(secretNonce), msg)

GeneratePartialSignature(secretKey, secretNonce, list, msg) ==
    LET sumPubKeys == AddPublicKeys(PubExcesses(list))
        sumPubNonces == AddPublicKeys(PubNonces(list))
    IN CalculatePartialSignature(secretKey, secretNonce, sumPubKeys, sumPubNonces, msg)

AggregateSignatures(list) ==
    LET signatures ==
            [i \in DOMAIN SelectSeq(list, HasPartial) |->
                PartialOf(SelectSeq(list, HasPartial)[i])]
        sumPubNonces == AddPublicKeys(PubNonces(list))
    IN Crypto_AggregateSignatures(signatures, sumPubNonces)

\* VerifyPartialSignatures that checks each partial against its own excess
\* in place of the sum of the excesses.
VerifyPartialSignatures_OwnExcess(list, msg) ==
    LET sumPubNonces == AddPublicKeys(PubNonces(list))
    IN \A i \in DOMAIN list :
          HasPartial(list[i]) =>
              VerifyPartialSignature(PartialOf(list[i]), list[i].excess,
                                     list[i].excess, sumPubNonces, msg)

\* The second loop of VerifyPartialSignatures from entry i on, that treats an
\* entry without partial signature as a failure.
RECURSIVE VerifyPartialSignaturesLoop_RejectsMissing(_, _, _, _, _, _)
VerifyPartialSignaturesLoop_RejectsMissing(list, msg, sumPubKeys, sumPubNonces, i, checked) ==
    IF i > Len(list) THEN [result |-> TRUE, checked |-> checked]
    ELSE IF ~HasPartial(list[i]) THEN [result |-> FALSE, checked |-> checked]
    ELSE IF ~VerifyPartialSignature(PartialOf(list[i]), list[i].excess,
                                    sumPubKeys, sumPubNonces, msg)
    THEN [result |-> FALSE, checked |-> Append(checked, i)]
    ELSE VerifyPartialSignaturesLoop_RejectsMissing(list, msg, sumPubKeys, sumPubNonces,
                                                    i + 1, Append(checked, i))

\* The second loop of VerifyPartialSignatures from entry i on: what it returns,
\* and the entries it handed to Crypto::VerifyPartialSignature.
RECURSIVE VerifyPartialSignaturesLoop(_, _, _, _, _, _)
VerifyPartialSignaturesLoop(list, msg, sumPubKeys, sumPubNonces, i, checked) ==
    IF i > Len(list) THEN [result |-> TRUE, checked |-> checked]
    ELSE IF ~HasPartial(list[i])
    THEN VerifyPartialSignaturesLoop(list, msg, sumPubKeys, sumPubNonces, i + 1, checked)
    ELSE IF ~VerifyPartialSignature(PartialOf(list[i]), list[i].excess,
                                    sumPubKeys, sumPubNonces, msg)
    THEN [result |-> FALSE, checked |-> Append(checked, i)]
    ELSE VerifyPartialSignaturesLoop(list, msg, sumPubKeys, sumPubNonces,
                                     i + 1, Append(checked, i))

\* VerifyPartialSignatures with the entries it checked.
VerifyPartialSignaturesRun(list, msg) ==
    LET sumPubKeys == AddPublicKeys(PubExcesses(list))
        sumPubNonces == AddPublicKeys(PubNonces(list))
    IN VerifyPartialSignaturesLoop(list, msg, sumPubKeys, sumPubNonces, 1, <<>>)

VerifyPartialSignatures(list, msg) == VerifyPartialSignaturesRun(list, msg).result

\* VerifyAggregateSignature that accepts the aggregate when the partial
\* signatures present in the list verify.
VerifyAggregateSignature_PartialsOnly(aggregateSignature, list, msg) ==
    VerifyPartialSignatures(list, msg)

VerifyAggregateSignature(aggregateSignature, list, msg) ==
    LET sumPubKeys == AddPublicKeys(PubExcesses(list))
    IN Crypto_VerifyAggregateSignature(aggregateSignature, sumPubKeys, msg)

\* ---- the slate ----

\* The list handed to the verifier: its own excesses and nonces, with the
\* partial signatures the participants attached.
OtherList ==
    [i \in DOMAIN sigs |->
        SlateSignature(otherSigs[i].excess, otherSigs[i].nonce, sigs[i].partialOpt)]

SigStart ==
    \E n \in 1 .. MaxParticipants :
        /\ secrets \in [1 .. n -> [secretKey : Scalars, secretNonce : Scalars]]
        /\ sigs = [i \in 1 .. n |->
                      SlateSignature(PubKey(secrets[i].secretKey),
                                     PubKey(secrets[i].secretNonce), NoValue)]
        /\ message = 0
        /\ otherSigs \in [1 .. n -> [excess : {PubKey(x) : x \in Scalars},
                                     nonce : {PubKey(x) : x \in Scalars}]]
        /\ otherMessage \in Messages
        /\ sLast = [op |-> "none", result |-> TRUE, complete |-> FALSE, checked |-> <<>>]

\* Participant i signs over the list and the message, and attaches its partial.
Sign(i) ==
    /\ ~HasPartial(sigs[i])
    /\ sigs' = [sigs EXCEPT ![i].partialOpt =
                   Some(GeneratePartialSignature(secrets[i].secretKey,
                                                 secrets[i].secretNonce, sigs, message))]
    /\ sLast' = [op |-> "GeneratePartialSignature", result |-> TRUE, complete |-> FALSE,
                 checked |-> <<>>]
    /\ UNCHANGED <<secrets, message, otherSigs, otherMessage>>
    /\ UNCHANGED otherThanSig

\* Participant i attaches a partial signature made with a secret key that is
\* not the key of its public excess.
SignWithWrongKey(i) ==
    /\ ~HasPartial(sigs[i])
    /\ \E secretKey \in Scalars \ {secrets[i].secretKey} :
          sigs' = [sigs EXCEPT ![i].partialOpt =
                      Some(GeneratePartialSignature(secretKey, secrets[i].secretNonce,
                                                    sigs, message))]
    /\ sLast' = [op |-> "GeneratePartialSignature", result |-> TRUE, complete |-> FALSE,
                 checked |-> <<>>]
    /\ UNCHANGED <<secrets, message, otherSigs, otherMessage>>
    /\ UNCHANGED otherThanSig

\* Participant i has attached the partial signature of its own key and nonce.
SignedOwn(i) ==
    /\ HasPartial(sigs[i])
    /\ PartialOf(sigs[i]) = GeneratePartialSignature(secrets[i].secretKey,
                                                     secrets[i].secretNonce, sigs, message)

CallVerifyPartialSignatures ==
    /\ sLast' = [op |-> "VerifyPartialSignatures",
                 result |-> VerifyPartialSignatures(OtherList, otherMessage),
                 complete |-> \A i \in DOMAIN sigs : SignedOwn(i),
                 checked |-> VerifyPartialSignaturesRun(OtherList, otherMessage).checked]
    /\ UNCHANGED <<secrets, sigs, message, otherSigs, otherMessage>>
    /\ UNCHANGED otherThanSig

\* Finalize: aggregate the partial signatures of the list, then verify the result.
CallAggregateAndVerify ==
    /\ sLast' = [op |-> "VerifyAggregateSignature",
                 result |-> VerifyAggregateSignature(AggregateSignatures(OtherList),
                                                     OtherList, otherMessage),
                 complete |-> \A i \in DOMAIN sigs : SignedOwn(i),
                 checked |-> <<>>]
    /\ UNCHANGED <<secrets, sigs, message, otherSigs, otherMessage>>
    /\ UNCHANGED otherThanSig

NextSig ==
    \/ \E i \in DOMAIN sigs : Sign(i)
    \/ \E i \in DOMAIN sigs : SignWithWrongKey(i)
    \/ CallVerifyPartialSignatures
    \/ CallAggregateAndVerify

InitSig == SigStart /\ DBClosed /\ ValidatorIdle /\ TorIdle /\ ServerIdle /\ WalletIdle /\ FullBlockIdle

SpecSig == InitSig /\ [][NextSig]_vars

\* The list verified is the list signed: same excess and nonce in every entry.
SameList ==
    \A i \in DOMAIN sigs :
        otherSigs[i].excess = sigs[i].excess /\ otherSigs[i].nonce = sigs[i].nonce

\* C8: when every participant has signed, with its own secret key and nonce,
\* over the same list and message, the aggregate of the partial signatures
\* verifies for that list and message.
C8_AggregateVerifies ==
    (/\ sLast.op = "VerifyAggregateSignature"
     /\ sLast.complete
     /\ SameList
     /\ otherMessage = message) => sLast.result

\* Two participants signed and the aggregate was verified for their list.
C8_Witness ==
    /\ sLast.op = "VerifyAggregateSignature"
    /\ sLast.complete /\ SameList /\ otherMessage = message
    /\ Len(sigs) >= 2
    /\ sigs[1].excess # sigs[2].excess
    /\ sLast.result

\* C9 as stated: the partial signatures made over a list and a message are
\* accepted for that list and message, and rejected when the message, or the
\* public nonce or public excess of any participant, differs.
C9_Original ==
    (/\ sLast.op = "VerifyPartialSignatures"
     /\ \E i \in DOMAIN sigs : HasPartial(sigs[i])
     /\ \A i \in DOMAIN sigs : HasPartial(sigs[i]) => SignedOwn(i)) =>
        /\ (SameList /\ otherMessage = message) => sLast.result
        /\ (~SameList \/ otherMessage # message) => ~sLast.result

\* C9 amended: the partial signatures made over a list and a message are
\* accepted for that list and message, and rejected when the message, the sum
\* of the public nonces, the sum of the public excesses, or the public excess of
\* a signer differs; a change of the entries that keeps the two sums and the
\* signers' excesses is not detected.
C9_PartialsCheckedAgainstSums ==
    (/\ sLast.op = "VerifyPartialSignatures"
     /\ \E i \in DOMAIN sigs : HasPartial(sigs[i])
     /\ \A i \in DOMAIN sigs : HasPartial(sigs[i]) => SignedOwn(i)) =>
        (sLast.result <=>
            /\ otherMessage = message
            /\ AddPublicKeys(PubNonces(otherSigs)) = AddPublicKeys(PubNonces(sigs))
            /\ AddPublicKeys(PubExcesses(otherSigs)) = AddPublicKeys(PubExcesses(sigs))
            /\ \A i \in DOMAIN sigs :
                  HasPartial(sigs[i]) => otherSigs[i].excess = sigs[i].excess)

\* The nonces of two entries were exchanged after signing, and the partial
\* signatures are still accepted.
C9_Witness ==
    /\ sLast.op = "VerifyPartialSignatures"
    /\ \A i \in DOMAIN sigs : SignedOwn(i)
    /\ ~SameList
    /\ sLast.result

\* The entries of the verified list that have a partial signature, in order.
PresentEntries == SelectSeq([i \in DOMAIN sigs |-> i], LAMBDA i : HasPartial(sigs[i]))

\* Crypto::VerifyPartialSignature accepts the partial signature of entry i of
\* the verified list.
PartialVerifies(i) ==
    VerifyPartialSignature(PartialOf(OtherList[i]), OtherList[i].excess,
                           AddPublicKeys(PubExcesses(OtherList)),
                           AddPublicKeys(PubNonces(OtherList)), otherMessage)

\* The present entries up to the first one whose partial does not verify.
RECURSIVE UpToFirstFailure(_)
UpToFirstFailure(entries) ==
    IF entries = <<>> THEN <<>>
    ELSE IF ~PartialVerifies(Head(entries)) THEN <<Head(entries)>>
    ELSE <<Head(entries)>> \o UpToFirstFailure(Tail(entries))

\* C19: VerifyPartialSignatures returns true exactly when every partial
\* signature present in the list verifies against its participant's excess,
\* the two sums and the message; it stops at the first present partial that
\* fails; entries without partial are never checked, so a list without any
\* partial signature is accepted.
C19_EveryPresentPartialVerifies ==
    sLast.op = "VerifyPartialSignatures" =>
        /\ sLast.result <=>
               \A i \in DOMAIN sigs : HasPartial(sigs[i]) => PartialVerifies(i)
        /\ sLast.checked = UpToFirstFailure(PresentEntries)
        /\ \A n \in DOMAIN sLast.checked : HasPartial(sigs[sLast.checked[n]])
        /\ ~sLast.result =>
               /\ sLast.checked # <<>>
               /\ ~PartialVerifies(sLast.checked[Len(sLast.checked)])
        /\ (\A i \in DOMAIN sigs : ~HasPartial(sigs[i])) => sLast.result

\* The first entry has no partial, the second one has a partial that verifies
\* and the list is accepted with only the second entry checked.
C19_Witness ==
    /\ sLast.op = "VerifyPartialSignatures"
    /\ Len(sigs) >= 2
    /\ ~HasPartial(sigs[1])
    /\ HasPartial(sigs[2])
    /\ sLast.checked = <<2>>
    /\ sLast.result

\* A list in which nobody has a partial signature was accepted.
NoPartialAccepted ==
    /\ sLast.op = "VerifyPartialSignatures"
    /\ Len(sigs) >= 2
    /\ \A i \in DOMAIN sigs : ~HasPartial(sigs[i])
    /\ sLast.result /\ sLast.checked = <<>>

\* Both entries have a partial, the first one fails: the second is not checked.
RejectedAtFirstFailure ==
    /\ sLast.op = "VerifyPartialSignatures"
    /\ Len(sigs) >= 2
    /\ \A i \in DOMAIN sigs : HasPartial(sigs[i])
    /\ ~sLast.result /\ sLast.checked = <<1>>
    /\ PartialVerifies(2)

\* The first partial verifies and the second one fails.
RejectedAtSecondPartial ==
    /\ sLast.op = "VerifyPartialSignatures"
    /\ Len(sigs) >= 2
    /\ ~sLast.result /\ sLast.checked = <<1, 2>>
    /\ PartialVerifies(1)

MaxReads == 3

TOR_CONTROL_TIMEOUT == 3

\* Strings are sequences of characters.
Whitespace == {" ", "\r"}
OK250 == <<"2", "5", "0", " ", "O", "K">>
Prefix250 == <<"2", "5", "0">>

\* The lines the Tor peer may send.
RawLines ==
    { OK250,
      OK250 \o <<"\r">>,
      <<" ">> \o OK250,
      <<"2", "5", "0", "-", "a">>,
      <<"2", "5", "0", " ", "b", "\r">>,
      <<"2", "5", "0", " ", "O", "K", "A", "Y">>,
      Prefix250,
      <<"2", "5">>,
      <<"5", "5", "0", " ", "x">>,
      <<" ", "5", "1", "0", "\r">>,
      <<"\r">> }

Requests == {"GETINFO", "ADD_ONION"}

\* What a failing socket operation says.
SocketErrors == {"timed out", "end of file"}

\* std::string::Trim of the line: without the leading and trailing whitespace.
RECURSIVE TrimLeft(_)
TrimLeft(str) ==
    IF str # <<>> /\ Head(str) \in Whitespace THEN TrimLeft(Tail(str)) ELSE str

RECURSIVE TrimRight(_)
TrimRight(str) ==
    IF str # <<>> /\ str[Len(str)] \in Whitespace
    THEN TrimRight(SubSeq(str, 1, Len(str) - 1))
    ELSE str

Trim(str) == TrimRight(TrimLeft(str))

\* StringUtil::StartsWith
StartsWith(str, prefix) ==
    /\ Len(str) >= Len(prefix)
    /\ SubSeq(str, 1, Len(prefix)) = prefix

NoOutcome == [kind |-> "none", text |-> "", line |-> <<>>, value |-> <<>>]
ReturnValue(value) == [kind |-> "returned", text |-> "", line |-> <<>>, value |-> value]
\* TOR_EXCEPTION(text + line)
TOR_EXCEPTION(text, line) ==
    [kind |-> "TorException", text |-> text, line |-> line, value |-> <<>>]

\* A std::exception, other than TorException, thrown by the socket.
StdException(what) ==
    [kind |-> "std::exception", text |-> what, line |-> <<>>, value |-> <<>>]

\* The two handlers of Invoke, where a std::exception passes unchanged.
Catch_PassesThrough(e) == e

\* The two handlers of Invoke: a TorException is thrown again as it is, any
\* other std::exception as TOR_EXCEPTION(e.what()).
Catch(e) ==
    IF e.kind = "TorException" THEN e ELSE TOR_EXCEPTION(e.text, <<>>)

\* The loop of Invoke on the line just read that skips the test of the prefix.
InvokeLoop_NoPrefixTest(line, resp) ==
    IF line = OK250
    THEN [pc |-> "done", response |-> resp, outcome |-> ReturnValue(resp)]
    ELSE [pc |-> "read", response |-> Append(resp, line), outcome |-> NoOutcome]

\* The loop of Invoke on the line just read: return at "250 OK", throw at a
\* line without the prefix, else keep the line and read the next one.
InvokeLoop(line, resp) ==
    IF line = OK250
    THEN [pc |-> "done", response |-> resp, outcome |-> ReturnValue(resp)]
    ELSE IF ~StartsWith(line, Prefix250)
         THEN [pc |-> "done", response |-> <<>>,
               outcome |-> TOR_EXCEPTION("Failed with error: ", line)]
         ELSE [pc |-> "read", response |-> Append(resp, line), outcome |-> NoOutcome]

\* How Client::Connect(address, TOR_CONTROL_TIMEOUT) ends.
ConnectOutcomes == {"established", "asio::system_error"}

NotConnected == [called |-> FALSE, outcome |-> "none", returned |-> FALSE]

TorStart ==
    /\ torConnected = NotConnected
    /\ torPc = "idle"
    /\ torRequest = Null
    /\ written = <<>>
    /\ linesRead = <<>>
    /\ response = <<>>
    /\ torOutcome = NoOutcome
    /\ deadlines = {}
    /\ raised = NoOutcome

\* Connect returns true when Client::Connect returned, false when it threw an
\* asio::system_error.
Connect(outcome) ==
    /\ torPc = "idle"
    /\ ~torConnected.called
    /\ torConnected' = [called |-> TRUE, outcome |-> outcome,
                        returned |-> outcome # "asio::system_error"]
    /\ deadlines' = deadlines \cup {TOR_CONTROL_TIMEOUT}
    /\ UNCHANGED <<torPc, torRequest, written, linesRead, response, torOutcome, raised>>
    /\ UNCHANGED otherThanTor

\* Invoke is called.
Invoke(request) ==
    /\ torPc = "idle"
    /\ torOutcome.kind = "none"
    /\ torPc' = "write"
    /\ torRequest' = request
    /\ UNCHANGED <<torConnected, written, linesRead, response, torOutcome, deadlines,
                   raised>>
    /\ UNCHANGED otherThanTor

\* Write(request, TOR_CONTROL_TIMEOUT) succeeds.
WriteOk ==
    /\ torPc = "write"
    /\ torConnected.outcome = "established"
    /\ written' = Append(written, torRequest)
    /\ torPc' = "read"
    /\ deadlines' = deadlines \cup {TOR_CONTROL_TIMEOUT}
    /\ UNCHANGED <<torConnected, torRequest, linesRead, response, torOutcome, raised>>
    /\ UNCHANGED otherThanTor

\* Write throws: the std::exception is thrown again as a TorException.
WriteFails(what) ==
    /\ torPc = "write"
    /\ torPc' = "done"
    /\ response' = <<>>
    /\ raised' = StdException(what)
    /\ torOutcome' = Catch(raised')
    /\ deadlines' = deadlines \cup {TOR_CONTROL_TIMEOUT}
    /\ UNCHANGED <<torConnected, torRequest, written, linesRead>>
    /\ UNCHANGED otherThanTor

\* ReadLine(TOR_CONTROL_TIMEOUT) delivers a line, and the loop acts on it.
ReadLineOk(raw) ==
    /\ torPc = "read"
    /\ Len(linesRead) < MaxReads
    /\ linesRead' = Append(linesRead, raw)
    /\ LET next == InvokeLoop(Trim(raw), response)
       IN /\ torPc' = next.pc
          /\ response' = next.response
          /\ raised' = IF next.outcome.kind = "TorException" THEN next.outcome ELSE raised
          /\ torOutcome' = IF next.outcome.kind = "TorException"
                           THEN Catch(next.outcome)
                           ELSE next.outcome
    /\ deadlines' = deadlines \cup {TOR_CONTROL_TIMEOUT}
    /\ UNCHANGED <<torConnected, torRequest, written>>
    /\ UNCHANGED otherThanTor

\* ReadLine throws: the std::exception is thrown again as a TorException.
ReadLineFails(what) ==
    /\ torPc = "read"
    /\ torPc' = "done"
    /\ response' = <<>>
    /\ raised' = StdException(what)
    /\ torOutcome' = Catch(raised')
    /\ deadlines' = deadlines \cup {TOR_CONTROL_TIMEOUT}
    /\ UNCHANGED <<torConnected, torRequest, written, linesRead>>
    /\ UNCHANGED otherThanTor

NextTor ==
    \/ \E outcome \in ConnectOutcomes : Connect(outcome)
    \/ \E request \in Requests : Invoke(request)
    \/ WriteOk
    \/ \E what \in SocketErrors : WriteFails(what)
    \/ \E raw \in RawLines : ReadLineOk(raw)
    \/ \E what \in SocketErrors : ReadLineFails(what)

InitTor == TorStart /\ DBClosed /\ ValidatorIdle /\ SigIdle /\ ServerIdle /\ WalletIdle /\ FullBlockIdle

SpecTor == InitTor /\ [][NextTor]_vars

\* ---- the call of Invoke without a bound on the lines read ----

\* ReadLine delivers one more line that the loop keeps, after MaxReads lines:
\* the oldest line kept leaves the view.
ReadLineBeyond(raw) ==
    /\ torPc = "read"
    /\ Len(linesRead) = MaxReads
    /\ LET next == InvokeLoop(Trim(raw), Tail(response))
       IN /\ next.pc = "read"
          /\ linesRead' = Append(Tail(linesRead), raw)
          /\ torPc' = next.pc
          /\ response' = next.response
    /\ deadlines' = deadlines \cup {TOR_CONTROL_TIMEOUT}
    /\ UNCHANGED <<torConnected, torRequest, written, torOutcome, raised>>
    /\ UNCHANGED otherThanTor

\* Write returns or throws.
WriteStep == WriteOk \/ \E what \in SocketErrors : WriteFails(what)

\* ReadLine returns a line or throws.
ReadStep ==
    \/ \E raw \in RawLines : ReadLineOk(raw)
    \/ \E raw \in RawLines : ReadLineBeyond(raw)
    \/ \E what \in SocketErrors : ReadLineFails(what)

NextTorLive ==
    \/ \E outcome \in ConnectOutcomes : Connect(outcome)
    \/ \E request \in Requests : Invoke(request)
    \/ WriteOk
    \/ \E what \in SocketErrors : WriteFails(what)
    \/ \E raw \in RawLines : ReadLineOk(raw)
    \/ \E raw \in RawLines : ReadLineBeyond(raw)
    \/ \E what \in SocketErrors : ReadLineFails(what)

\* Every socket call ends within its timeout: it returns or it throws.
SpecTorLive ==
    InitTor /\ [][NextTorLive]_vars /\ WF_vars(WriteStep) /\ WF_vars(ReadStep)

\* ---- what the claims speak of ----

Has250Prefix(line) ==
    Len(line) >= 3 /\ line[1] = "2" /\ line[2] = "5" /\ line[3] = "0"

Is250OK(raw) == Trim(raw) = OK250
IsFailureLine(raw) == ~Is250OK(raw) /\ ~Has250Prefix(Trim(raw))

\* C10: Invoke writes the request exactly once and then reads lines one at a
\* time; it returns exactly the trimmed lines read before the first "250 OK",
\* in the order read and without the "250 OK" line; every returned line starts
\* with "250"; and at the first line that is neither "250 OK" nor prefixed
\* with "250" it throws TorException, returns no response and reads no further
\* line.
C10_InvokeResponse ==
    /\ linesRead # <<>> => written = <<torRequest>>
    /\ Len(written) <= 1
    /\ torOutcome.kind = "returned" =>
          /\ written = <<torRequest>>
          /\ linesRead # <<>>
          /\ Is250OK(linesRead[Len(linesRead)])
          /\ \A i \in 1 .. Len(linesRead) - 1 : ~Is250OK(linesRead[i])
          /\ torOutcome.value = [i \in 1 .. Len(linesRead) - 1 |-> Trim(linesRead[i])]
          /\ \A i \in DOMAIN torOutcome.value : Has250Prefix(torOutcome.value[i])
    /\ \A i \in DOMAIN linesRead :
          Is250OK(linesRead[i]) => i = Len(linesRead) /\ torOutcome.kind = "returned"
    /\ \A i \in DOMAIN linesRead :
          IsFailureLine(linesRead[i]) =>
              /\ i = Len(linesRead)
              /\ torPc = "done"
              /\ torOutcome.kind = "TorException"
              /\ torOutcome.line = Trim(linesRead[i])
              /\ torOutcome.value = <<>>
              /\ response = <<>>

\* Invoke returned two lines that needed trimming, after a "250 OK" with a
\* trailing carriage return.
C10_WitnessReturned ==
    /\ torOutcome.kind = "returned"
    /\ Len(torOutcome.value) = 2
    /\ torOutcome.value[1] # linesRead[1]
    /\ linesRead[3] # OK250

\* Invoke threw at a failure line that followed a line it had kept.
C10_WitnessThrown ==
    /\ torOutcome.kind = "TorException"
    /\ Len(linesRead) = 2
    /\ IsFailureLine(linesRead[2])

\* C11: the connect, the write and each line read use the 3-second
\* TOR_CONTROL_TIMEOUT, and a call of Invoke always completes, by a response or
\* by a TorException, whatever the Tor peer does.
C11_InvokeCompletes ==
    /\ [](deadlines \subseteq {3})
    /\ (torPc = "write") ~> (torPc = "done" /\ torOutcome.kind \in {"returned", "TorException"})

\* The part of C11 that the code meets: every socket call has the 3-second timeout.
TorDeadlinesAreThreeSeconds == deadlines \subseteq {3}

\* The part of C11 that the code meets: Invoke ends once the peer falls silent,
\* closes the connection, or sends a line that ends the loop.
InvokeCompletesUnlessFed ==
    (torPc = "write") ~> (torPc = "done" \/ Len(linesRead) = MaxReads)

(***************************************************************************)
(*                              Server::Run                                *)
(***************************************************************************)

MaxIterations == 2

Components ==
    {"Database", "TxHashSetManager", "TransactionPool", "BlockChainServer",
     "P2PServer", "NodeRestServer"}

\* The components in the order in which Run creates them, each with the
\* components handed to its constructor.
StartupSteps ==
    << [make |-> "Database", from |-> {}],
       [make |-> "TxHashSetManager", from |-> {"Database"}],
       [make |-> "TransactionPool", from |-> {"TxHashSetManager", "Database"}],
       [make |-> "BlockChainServer",
        from |-> {"Database", "TxHashSetManager", "TransactionPool"}],
       [make |-> "P2PServer",
        from |-> {"BlockChainServer", "Database", "TransactionPool"}],
       [make |-> "NodeRestServer",
        from |-> {"Database", "TxHashSetManager", "BlockChainServer", "P2PServer"}] >>

LoggerFlush == "LoggerAPI::Flush"

\* A teardown that closes the database first.
TeardownSteps_DatabaseFirst ==
    << "Database", "NodeRestServer", "P2PServer", "TransactionPool", "BlockChainServer",
       "TxHashSetManager", LoggerFlush >>

\* The statements after the main loop, in order.
TeardownSteps ==
    << "NodeRestServer", "P2PServer", "TransactionPool", "BlockChainServer",
       "TxHashSetManager", "Database", LoggerFlush >>

ESyncStatus ==
    {"NOT_SYNCING", "SYNCING_HEADERS", "SYNCING_TXHASHSET", "PROCESSING_TXHASHSET",
     "TXHASHSET_SYNC_FAILED", "SYNCING_BLOCKS"}

CtrlTypes == {"CTRL_C_EVENT", "CTRL_BREAK_EVENT"}

ServerStart ==
    /\ SHUTDOWN = FALSE
    /\ runPc = "startup"
    /\ step = 1
    /\ live = [c \in Components |-> "none"]
    /\ done = <<>>
    /\ status = "none"
    /\ iterations = 0
    /\ afterShutdown = [refreshes |-> 0, sleeps |-> 0]
    /\ handled = "none"

\* The console handler, on its own thread: Ctrl-C sets the flag.
CtrlHandler(fdwCtrlType) ==
    /\ runPc # "returned"
    /\ IF fdwCtrlType = "CTRL_C_EVENT"
       THEN SHUTDOWN' = TRUE /\ handled' = "TRUE"
       ELSE SHUTDOWN' = SHUTDOWN /\ handled' = "FALSE"
    /\ UNCHANGED <<runPc, step, live, done, status, iterations, afterShutdown>>
    /\ UNCHANGED otherThanServer

\* Run creates the next component.
Startup ==
    /\ runPc = "startup"
    /\ live' = [live EXCEPT ![StartupSteps[step].make] = "live"]
    /\ IF step < Len(StartupSteps)
       THEN step' = step + 1 /\ runPc' = runPc
       ELSE step' = 0 /\ runPc' = "check"
    /\ UNCHANGED <<SHUTDOWN, done, status, iterations, afterShutdown, handled>>
    /\ UNCHANGED otherThanServer

\* if (SHUTDOWN) break;
Check ==
    /\ runPc = "check"
    /\ IF SHUTDOWN
       THEN runPc' = "teardown" /\ step' = 1
       ELSE runPc' = "refresh" /\ step' = step
    /\ UNCHANGED <<SHUTDOWN, live, done, status, iterations, afterShutdown, handled>>
    /\ UNCHANGED otherThanServer

\* The status of the P2P server is read and shown.
Refresh(syncStatus) ==
    /\ runPc = "refresh"
    /\ live["P2PServer"] = "live"
    /\ status' = syncStatus
    /\ afterShutdown' =
          IF SHUTDOWN THEN [afterShutdown EXCEPT !.refreshes = @ + 1] ELSE afterShutdown
    /\ runPc' = "sleep"
    /\ UNCHANGED <<SHUTDOWN, step, live, done, iterations, handled>>
    /\ UNCHANGED otherThanServer

\* sleep_for(1 s) ends.
Sleep ==
    /\ runPc = "sleep"
    /\ afterShutdown' =
          IF SHUTDOWN THEN [afterShutdown EXCEPT !.sleeps = @ + 1] ELSE afterShutdown
    /\ iterations' = IF iterations < MaxIterations THEN iterations + 1 ELSE iterations
    /\ runPc' = "check"
    /\ UNCHANGED <<SHUTDOWN, step, live, done, status, handled>>
    /\ UNCHANGED otherThanServer

\* Run executes the next statement after the loop.
Teardown ==
    /\ runPc = "teardown"
    /\ live' = IF TeardownSteps[step] \in Components
               THEN [live EXCEPT ![TeardownSteps[step]] = "down"]
               ELSE live
    /\ done' = Append(done, TeardownSteps[step])
    /\ IF step < Len(TeardownSteps)
       THEN step' = step + 1 /\ runPc' = runPc
       ELSE step' = 0 /\ runPc' = "returned"
    /\ UNCHANGED <<SHUTDOWN, status, iterations, afterShutdown, handled>>
    /\ UNCHANGED otherThanServer

\* A step of the main thread.
MainStep ==
    \/ Startup
    \/ Check
    \/ \E syncStatus \in ESyncStatus : Refresh(syncStatus)
    \/ Sleep
    \/ Teardown

NextServer ==
    \/ \E fdwCtrlType \in CtrlTypes : CtrlHandler(fdwCtrlType)
    \/ Startup
    \/ Check
    \/ \E syncStatus \in ESyncStatus : Refresh(syncStatus)
    \/ Sleep
    \/ Teardown

InitServer == ServerStart /\ DBClosed /\ ValidatorIdle /\ SigIdle /\ TorIdle /\ WalletIdle /\ FullBlockIdle

\* The main thread keeps running: every call it makes returns.
SpecServer == InitServer /\ [][NextServer]_vars /\ WF_vars(MainStep)

\* The place of a statement in the teardown executed so far, 0 when not executed.
DoneAt(what) ==
    IF \E i \in DOMAIN done : done[i] = what
    THEN CHOOSE i \in DOMAIN done : done[i] = what
    ELSE 0

\* C12: the SHUTDOWN flag is only ever set; once it is set the main loop exits
\* at its next check, after at most one further refresh and sleep; Run then
\* returns, having shut down the REST server, the P2P server, the transaction
\* pool, the block-chain server and the TxHashSet manager, then closed the
\* database, then flushed the logger.
C12_CooperativeShutdown ==
    /\ [][SHUTDOWN => SHUTDOWN']_vars
    /\ [][(runPc = "check" /\ SHUTDOWN /\ runPc' # runPc) => runPc' = "teardown"]_vars
    /\ [](afterShutdown.refreshes <= 1 /\ afterShutdown.sleeps <= 1)
    /\ SHUTDOWN ~> (runPc = "returned")
    /\ [](runPc = "returned" =>
            /\ \A c \in Components : live[c] = "down" /\ DoneAt(c) > 0
            /\ \A c \in Components \ {"Database"} : DoneAt(c) < DoneAt("Database")
            /\ DoneAt(LoggerFlush) = DoneAt("Database") + 1
            /\ Len(done) = DoneAt(LoggerFlush))

\* Ctrl-C arrived in the middle of a pass of the loop, and Run returned after
\* that pass.
C12_Witness ==
    /\ runPc = "returned"
    /\ SHUTDOWN
    /\ afterShutdown.refreshes = 1
    /\ afterShutdown.sleeps = 1
    /\ iterations >= 1

\* C17: the only exception that leaves Invoke is a TorException: the one raised
\* for a failure line leaves unchanged, and a std::exception of the write or of
\* a line read leaves as a TorException with its message. Connect returns false
\* on an asio::system_error and true only when the connection was established.
C17_OnlyTorExceptionEscapes ==
    /\ torOutcome.kind \in {"none", "returned", "TorException"}
    /\ (raised.kind # "none") <=> (torOutcome.kind = "TorException")
    /\ raised.kind = "TorException" =>
          /\ torOutcome = raised
          /\ torOutcome.text = "Failed with error: "
          /\ torOutcome.line = Trim(linesRead[Len(linesRead)])
    /\ raised.kind = "std::exception" =>
          /\ torOutcome.kind = "TorException"
          /\ torOutcome.text = raised.text
    /\ torConnected.called =>
          /\ torConnected.outcome = "asio::system_error" => ~torConnected.returned
          /\ torConnected.returned => torConnected.outcome = "established"

\* A line read timed out after Connect had returned true and a line had been
\* kept, and Invoke threw a TorException with the message of the timeout.
C17_Witness ==
    /\ torConnected.returned
    /\ Len(linesRead) >= 1
    /\ raised.kind = "std::exception"
    /\ raised.text = "timed out"
    /\ torOutcome.kind = "TorException"
    /\ torOutcome.text = "timed out"

\* Connect returned false and the write of Invoke failed.
ConnectFailedThenInvokeThrew ==
    /\ torConnected.called
    /\ ~torConnected.returned
    /\ written = <<>>
    /\ torOutcome.kind = "TorException"

\* The components that component c was constructed from.
From(c) == StartupSteps[CHOOSE n \in DOMAIN StartupSteps : StartupSteps[n].make = c].from

\* A live component that was constructed from a component already destroyed.
Dangling == {c \in Components : live[c] = "live" /\ \E d \in From(c) : live[d] = "down"}

\* C22: component lifetimes in Server::Run are nested: a component is created
\* only after every component it is constructed from, and is shut down or
\* destroyed only after every component constructed from it has been shut
\* down, so that no live component refers to a destroyed one.
C22_NestedLifetimes ==
    \A c \in Components :
        /\ live[c] # "none" => \A d \in From(c) : live[d] # "none"
        /\ live[c] = "live" => \A d \in From(c) : live[d] = "live"

\* The startup is nested: a component exists only when every component it is
\* constructed from exists.
CreatedAfterDependencies ==
    \A c \in Components : live[c] # "none" => \A d \in From(c) : live[d] # "none"

\* The block-chain server is the only component that outlives a component it
\* was constructed from, and the transaction pool is that component.
OnlyBlockChainServerDangles ==
    /\ Dangling \subseteq {"BlockChainServer"}
    /\ Dangling # {} =>
          {d \in From("BlockChainServer") : live[d] = "down"} = {"TransactionPool"}

\* The transaction pool is destroyed and the block-chain server is not shut down.
TransactionPoolDestroyedFirst ==
    /\ runPc = "teardown"
    /\ live["TransactionPool"] = "down"
    /\ live["BlockChainServer"] = "live"

(***************************************************************************)
(*                             WalletManager                               *)
(***************************************************************************)

\* The number of session tokens the session manager issues in one run.
MaxTokens == 2

Usernames == {"u1", "u2"}

\* The tokens handed to the operations: issued or not, live or logged out.
Tokens == 0 .. MaxTokens

\* The calls that resolve a token.
GetSeed == "m_sessionManager.GetSeed"
GetWallet == "m_sessionManager.GetWallet"
SessionCalls == {GetSeed, GetWallet}

\* The calls that read or change the wallet of the session.
WalletCalls ==
    {"WalletRestorer::Restore", "wallet.GetWalletSummary", "wallet.GetTransactions",
     "SendSlateBuilder::BuildSendSlate", "ReceiveSlateBuilder::AddReceiverData",
     "FinalizeSlateBuilder::Finalize", "wallet.GetTxById", "wallet.CancelWalletTx"}

\* The calls that send something to the node client.
NodeCalls ==
    {"m_nodeClient.PostTransaction", "WalletRestorer::Restore",
     "SendSlateBuilder::BuildSendSlate"}

\* SessionManager: the token names a live session.
IsLive(token) == token \in DOMAIN sessions

\* SessionManager::GetSeed and GetWallet throw for a token without session.
Throws(call, token) == call \in SessionCalls /\ ~IsLive(token)

\* The statements of an operation run in order until one of them throws:
\* the calls made, and how the operation ended.
RECURSIVE RunCalls(_, _, _)
RunCalls(calls, token, made) ==
    IF calls = <<>> THEN [calls |-> made, outcome |-> "returned"]
    ELSE IF Throws(Head(calls), token)
    THEN [calls |-> Append(made, Head(calls)), outcome |-> "threw"]
    ELSE RunCalls(Tail(calls), token, Append(made, Head(calls)))

\* PostTransaction that resolves the token first, as the other operations do.
PostTransaction_ResolvesToken(token) ==
    RunCalls(<<GetSeed, GetWallet, "m_nodeClient.PostTransaction">>, token, <<>>)

CheckForOutputs(token) ==
    RunCalls(<<GetSeed, GetWallet, "KeyChain::FromSeed", "WalletRestorer::Restore">>,
             token, <<>>)

GetWalletSummary(token) ==
    RunCalls(<<GetSeed, GetWallet, "wallet.GetWalletSummary">>, token, <<>>)

GetTransactions(token) ==
    RunCalls(<<GetSeed, GetWallet, "wallet.GetTransactions">>, token, <<>>)

Send(token) ==
    RunCalls(<<GetSeed, GetWallet, "SendSlateBuilder::BuildSendSlate">>, token, <<>>)

Receive(token) ==
    RunCalls(<<GetSeed, GetWallet, "ReceiveSlateBuilder::AddReceiverData">>, token, <<>>)

Finalize(token) ==
    RunCalls(<<GetSeed, GetWallet, "FinalizeSlateBuilder::Finalize">>, token, <<>>)

PostTransaction(token) ==
    RunCalls(<<"m_nodeClient.PostTransaction">>, token, <<>>)

\* found: wallet.GetTxById returned a transaction.
CancelByTxId(token, found) ==
    RunCalls(<<GetSeed, GetWallet, "wallet.GetTxById">>
                 \o (IF found THEN <<"wallet.CancelWalletTx">> ELSE <<>>),
             token, <<>>)

TokenOps ==
    {"CheckForOutputs", "GetWalletSummary", "GetTransactions", "Send", "Receive",
     "Finalize", "PostTransaction", "CancelByTxId"}

\* The operation op called with the token.
TokenOp(op, token, found) ==
    CASE op = "CheckForOutputs" -> CheckForOutputs(token)
      [] op = "GetWalletSummary" -> GetWalletSummary(token)
      [] op = "GetTransactions" -> GetTransactions(token)
      [] op = "Send" -> Send(token)
      [] op = "Receive" -> Receive(token)
      [] op = "Finalize" -> Finalize(token)
      [] op = "PostTransaction" -> PostTransaction(token)
      [] op = "CancelByTxId" -> CancelByTxId(token, found)

\* What a call of the WalletManager leaves behind.
WalletCall(op, token, username, run, created, decoded) ==
    [op |-> op, token |-> token, username |-> username, live |-> IsLive(token),
     calls |-> run.calls, outcome |-> run.outcome, created |-> created,
     decoded |-> decoded, existed |-> username \in wallets, before |-> sessions]

WalletStart ==
    /\ wallets = {}
    /\ sessions = <<>>
    /\ issued = 0
    /\ wLast = [op |-> "StartWalletManager", token |-> 0, username |-> Null,
                live |-> FALSE, calls |-> <<>>, outcome |-> "none", created |-> FALSE,
                decoded |-> Null, existed |-> FALSE, before |-> <<>>]

\* SessionManager::Login: a new token for the username.
SessionLogin(username) ==
    /\ issued < MaxTokens
    /\ issued' = issued + 1
    /\ sessions' = [t \in DOMAIN sessions \cup {issued + 1} |->
                       IF t = issued + 1 THEN username ELSE sessions[t]]

CallTokenOp(op, token, found) ==
    /\ wLast' = WalletCall(op, token, Null, TokenOp(op, token, found), FALSE, Null)
    /\ UNCHANGED <<wallets, sessions, issued>>
    /\ UNCHANGED otherThanWallet

\* Login by password: a token when the wallet exists and the password opens it.
Login(username, passwordOk) ==
    /\ IF username \in wallets /\ passwordOk
       THEN /\ SessionLogin(username)
            /\ wLast' = WalletCall("Login", issued + 1, username,
                                   [calls |-> <<"m_sessionManager.Login">>,
                                    outcome |-> "token"], FALSE, Null)
       ELSE /\ UNCHANGED <<sessions, issued>>
            /\ wLast' = WalletCall("Login", 0, username,
                                   [calls |-> <<"m_sessionManager.Login">>,
                                    outcome |-> "nullptr"], FALSE, Null)
    /\ UNCHANGED wallets
    /\ UNCHANGED otherThanWallet

Logout(token) ==
    /\ sessions' = [t \in DOMAIN sessions \ {token} |-> sessions[t]]
    /\ wLast' = WalletCall("Logout", token, Null,
                           [calls |-> <<"m_sessionManager.Logout">>,
                            outcome |-> "returned"], FALSE, Null)
    /\ UNCHANGED <<wallets, issued>>
    /\ UNCHANGED otherThanWallet

\* IWalletDB::CreateWallet returns true only when it created the wallet of the
\* username; it fails when the wallet exists, and it may fail to write.
CreateWalletOutcomes(username) ==
    IF username \in wallets THEN {FALSE} ELSE {TRUE, FALSE}

\* CreateWallet, and when it succeeded the login: the end of InitializeNewWallet
\* and of Restore. first: the calls made before CreateWallet; onSuccess: the
\* calls made before the login.
CreateAndLogin(op, username, first, onSuccess, decoded) ==
    \E created \in CreateWalletOutcomes(username) :
        IF created
        THEN /\ wallets' = wallets \cup {username}
             /\ SessionLogin(username)
             /\ wLast' = WalletCall(op, issued + 1, username,
                                    [calls |-> first \o <<"m_pWalletDB->CreateWallet">>
                                                  \o onSuccess
                                                  \o <<"m_sessionManager.Login">>,
                                     outcome |-> "token"], TRUE, decoded)
        ELSE /\ UNCHANGED <<wallets, sessions, issued>>
             /\ wLast' = WalletCall(op, 0, username,
                                    [calls |-> first \o <<"m_pWalletDB->CreateWallet">>,
                                     outcome |-> "nullopt"], FALSE, decoded)

\* InitializeNewWallet that logs in whether or not the wallet was created.
InitializeNewWallet_AlwaysLogsIn(username) ==
    /\ SessionLogin(username)
    /\ \E created \in CreateWalletOutcomes(username) :
          /\ wallets' = IF created THEN wallets \cup {username} ELSE wallets
          /\ wLast' = WalletCall("InitializeNewWallet", issued + 1, username,
                                 [calls |-> <<"RandomNumberGenerator::GenerateRandom32",
                                              "SeedEncrypter::EncryptWalletSeed",
                                              "m_pWalletDB->CreateWallet",
                                              "Mnemonic::CreateMnemonic",
                                              "m_sessionManager.Login">>,
                                  outcome |-> "token"], created, 32)
    /\ UNCHANGED otherThanWallet

InitializeNewWallet(username) ==
    /\ CreateAndLogin("InitializeNewWallet", username,
                      <<"RandomNumberGenerator::GenerateRandom32",
                        "SeedEncrypter::EncryptWalletSeed">>,
                      <<"Mnemonic::CreateMnemonic">>, 32)
    /\ UNCHANGED otherThanWallet

\* Mnemonic::ToEntropy: the words do not decode (0), or decode to an entropy
\* of 16, 24 or 32 bytes.
EntropySizes == {0, 16, 24, 32}

Restore(username, decoded) ==
    /\ IF decoded = 32
       THEN CreateAndLogin("Restore", username,
                           <<"Mnemonic::ToEntropy", "SeedEncrypter::EncryptWalletSeed">>,
                           <<>>, decoded)
       ELSE /\ UNCHANGED <<wallets, sessions, issued>>
            /\ wLast' = WalletCall("Restore", 0, username,
                                   [calls |-> <<"Mnemonic::ToEntropy">>,
                                    outcome |-> "nullopt"], FALSE, decoded)
    /\ UNCHANGED otherThanWallet

NextWallet ==
    \/ \E op \in TokenOps, token \in Tokens, found \in BOOLEAN :
          CallTokenOp(op, token, found)
    \/ \E username \in Usernames, passwordOk \in BOOLEAN : Login(username, passwordOk)
    \/ \E token \in Tokens : Logout(token)
    \/ \E username \in Usernames : InitializeNewWallet(username)
    \/ \E username \in Usernames, decoded \in EntropySizes : Restore(username, decoded)

InitWallet ==
    WalletStart /\ DBClosed /\ ValidatorIdle /\ SigIdle /\ TorIdle /\ ServerIdle
        /\ FullBlockIdle

SpecWallet == InitWallet /\ [][NextWallet]_vars

\* The calls of the last operation.
Made == {wLast.calls[n] : n \in DOMAIN wLast.calls}

\* C21: every operation that takes a SessionToken resolves the token through
\* the session manager before anything else; called with a token that names no
\* live session it fails without reading or changing the wallet and without
\* sending anything to the node client.
C21_TokenResolvedFirst ==
    wLast.op \in TokenOps =>
        /\ wLast.calls[1] \in SessionCalls
        /\ ~wLast.live =>
               /\ wLast.outcome = "threw"
               /\ Made \cap (WalletCalls \cup NodeCalls) = {}

\* Every operation but PostTransaction resolves the token first and fails on a
\* token without session.
TokenResolvedFirstButPostTransaction ==
    (wLast.op \in TokenOps \ {"PostTransaction"}) =>
        /\ wLast.calls[1] = GetSeed
        /\ ~wLast.live =>
               /\ wLast.outcome = "threw"
               /\ Made = {GetSeed}

\* PostTransaction posts to the node client whatever the token.
PostTransactionNeverResolves ==
    wLast.op = "PostTransaction" =>
        /\ wLast.calls = <<"m_nodeClient.PostTransaction">>
        /\ wLast.outcome = "returned"

\* A transaction was posted with the token of a session that was logged out.
PostedAfterLogout ==
    /\ wLast.op = "PostTransaction"
    /\ wLast.token \in 1 .. issued
    /\ ~wLast.live
    /\ "m_nodeClient.PostTransaction" \in Made

\* An operation called with a logged-out token failed at GetSeed.
FailedAfterLogout ==
    /\ wLast.op = "Send"
    /\ wLast.token \in 1 .. issued
    /\ ~wLast.live
    /\ wLast.outcome = "threw"

\* The place of a call among the calls of the last operation, 0 when not made.
PlaceOf(call) ==
    IF call \in Made THEN CHOOSE n \in DOMAIN wLast.calls : wLast.calls[n] = call ELSE 0

\* C24: InitializeNewWallet and Restore return a token, and log in, only after
\* CreateWallet succeeded for the username: the wallet is one they have just
\* created; when CreateWallet fails they return no value and do not log in;
\* Restore returns no value without calling CreateWallet or logging in when the
\* words do not decode or decode to an entropy that is not 32 bytes.
C24_SessionOnlyForCreatedWallet ==
    wLast.op \in {"InitializeNewWallet", "Restore"} =>
        /\ wLast.outcome \in {"token", "nullopt"}
        /\ (wLast.outcome = "token" \/ "m_sessionManager.Login" \in Made) =>
               /\ wLast.created
               /\ ~wLast.existed
               /\ wLast.username \in wallets
               /\ 0 < PlaceOf("m_pWalletDB->CreateWallet")
               /\ PlaceOf("m_pWalletDB->CreateWallet") < PlaceOf("m_sessionManager.Login")
        /\ wLast.created =>
               /\ wLast.outcome = "token"
               /\ wLast.token \notin DOMAIN wLast.before
               /\ wLast.token \in DOMAIN sessions
               /\ sessions[wLast.token] = wLast.username
        /\ ~wLast.created =>
               /\ wLast.outcome = "nullopt"
               /\ "m_sessionManager.Login" \notin Made
               /\ sessions = wLast.before
        /\ (wLast.op = "Restore" /\ wLast.decoded # 32) =>
               /\ wLast.outcome = "nullopt"
               /\ "m_pWalletDB->CreateWallet" \notin Made
               /\ "m_sessionManager.Login" \notin Made
               /\ sessions = wLast.before

\* InitializeNewWallet created the wallet of a second username and returned
\* the token of a new session of that wallet.
C24_Witness ==
    /\ wLast.op = "InitializeNewWallet"
    /\ wLast.created /\ ~wLast.existed
    /\ wLast.outcome = "token"
    /\ wLast.before # <<>>
    /\ IsLive(wLast.token)
    /\ sessions[wLast.token] = wLast.username
    /\ wLast.calls[Len(wLast.calls)] = "m_sessionManager.Login"

\* InitializeNewWallet failed for a username that has a wallet, while a session
\* of that wallet is open: no token and no new session.
InitializeFailedForExistingWallet ==
    /\ wLast.op = "InitializeNewWallet"
    /\ wLast.existed
    /\ ~wLast.created
    /\ wLast.outcome = "nullopt"
    /\ sessions # <<>>
    /\ sessions = wLast.before

\* Restore created the wallet and logged in.
RestoreLoggedIn ==
    /\ wLast.op = "Restore"
    /\ wLast.created /\ wLast.outcome = "token"
    /\ IsLive(wLast.token)

\* Restore refused words that decode to 16 bytes.
RestoreRefusedShortEntropy ==
    /\ wLast.op = "Restore"
    /\ wLast.decoded = 16
    /\ wLast.outcome = "nullopt"
    /\ wLast.calls = <<"Mnemonic::ToEntropy">>

(***************************************************************************)
(*                         FullBlock::m_validated                          *)
(***************************************************************************)

\* The number of FullBlock objects followed.
MaxObjects == 2

ObjectIds == 1 .. MaxObjects

\* The storage of an object that is not constructed.
NotConstructed ==
    [constructed |-> FALSE, m_validated |-> FALSE, origin |-> "none", justified |-> FALSE]

\* A constructed object. origin: the constructor that made it; justified:
\* MarkAsValidated was called on it, or its flag was taken from a block whose
\* flag was true.
FullBlockObject(flag, origin, justified) ==
    [constructed |-> TRUE, m_validated |-> flag, origin |-> origin,
     justified |-> justified]

\* The value of m_validated after FullBlock() = default: the member has no
\* initializer, so a default-initialized object (FullBlock b;) holds an
\* indeterminate value, and a value-initialized one (FullBlock b{};) holds false.
DefaultInitializations == {"default-initialized", "value-initialized"}
DefaultConstructedFlags(initialization) ==
    IF initialization = "value-initialized" THEN {FALSE} ELSE BOOLEAN

WasValidated(o) == objects[o].m_validated

FullBlockStart ==
    /\ objects = [o \in ObjectIds |-> NotConstructed]
    /\ bLast = [op |-> "none", target |-> 0, source |-> 0, before |-> FALSE,
                wasConstructed |-> FALSE, sourceFlag |-> FALSE]

\* What an operation on object o leaves behind: the flag of o before it, and
\* the flag of the block it took its value from.
BlockOp(op, o, source) ==
    [op |-> op, target |-> o, source |-> source, before |-> objects[o].m_validated,
     wasConstructed |-> objects[o].constructed,
     sourceFlag |-> IF source = 0 THEN FALSE ELSE objects[source].m_validated]

\* FullBlock(BlockHeaderPtr, TransactionBody&&), also the constructor that
\* Deserialize returns its block from.
ConstructFromHeaderAndBody(o, op) ==
    /\ ~objects[o].constructed
    /\ objects' = [objects EXCEPT ![o] = FullBlockObject(FALSE, op, FALSE)]
    /\ bLast' = BlockOp(op, o, 0)
    /\ UNCHANGED otherThanFullBlock

\* FullBlock() = default
DefaultConstruct(o, initialization) ==
    /\ ~objects[o].constructed
    /\ \E flag \in DefaultConstructedFlags(initialization) :
          objects' = [objects EXCEPT ![o] = FullBlockObject(flag, initialization, FALSE)]
    /\ bLast' = BlockOp("FullBlock()", o, 0)
    /\ UNCHANGED otherThanFullBlock

\* FullBlock(const FullBlock&) = default and FullBlock(FullBlock&&) = default:
\* the flag of the other block is copied.
CopyOrMoveConstruct(o, other, op) ==
    /\ ~objects[o].constructed
    /\ objects[other].constructed
    /\ objects' = [objects EXCEPT ![o] =
                      FullBlockObject(objects[other].m_validated, op,
                                      objects[other].m_validated)]
    /\ bLast' = BlockOp(op, o, other)
    /\ UNCHANGED otherThanFullBlock

\* operator=(const FullBlock&) = default and operator=(FullBlock&&) = default
Assign(o, other, op) ==
    /\ objects[o].constructed
    /\ objects[other].constructed
    /\ objects' = [objects EXCEPT ![o] =
                      FullBlockObject(objects[other].m_validated, objects[o].origin,
                                      objects[other].m_validated)]
    /\ bLast' = BlockOp(op, o, other)
    /\ UNCHANGED otherThanFullBlock

MarkAsValidated(o) ==
    /\ objects[o].constructed
    /\ objects' = [objects EXCEPT ![o] = FullBlockObject(TRUE, objects[o].origin, TRUE)]
    /\ bLast' = BlockOp("MarkAsValidated", o, 0)
    /\ UNCHANGED otherThanFullBlock

\* ~FullBlock() = default
Destroy(o) ==
    /\ objects[o].constructed
    /\ objects' = [objects EXCEPT ![o] = NotConstructed]
    /\ bLast' = BlockOp("~FullBlock", o, 0)
    /\ UNCHANGED otherThanFullBlock

NextFullBlock ==
    \/ \E o \in ObjectIds, op \in {"FullBlock(header, body)", "Deserialize"} :
          ConstructFromHeaderAndBody(o, op)
    \/ \E o \in ObjectIds, initialization \in DefaultInitializations :
          DefaultConstruct(o, initialization)
    \/ \E o \in ObjectIds, other \in ObjectIds,
          op \in {"FullBlock(const FullBlock&)", "FullBlock(FullBlock&&)"} :
          CopyOrMoveConstruct(o, other, op)
    \/ \E o \in ObjectIds, other \in ObjectIds,
          op \in {"operator=(const FullBlock&)", "operator=(FullBlock&&)"} :
          Assign(o, other, op)
    \/ \E o \in ObjectIds : MarkAsValidated(o)
    \/ \E o \in ObjectIds : Destroy(o)

InitFullBlock ==
    FullBlockStart /\ DBClosed /\ ValidatorIdle /\ SigIdle /\ TorIdle /\ ServerIdle
        /\ WalletIdle

SpecFullBlock == InitFullBlock /\ [][NextFullBlock]_vars

Assignments == {"operator=(const FullBlock&)", "operator=(FullBlock&&)"}

\* The last operation took the flag of its object from true to false.
FlagCleared ==
    /\ bLast.target \in ObjectIds
    /\ bLast.wasConstructed
    /\ objects[bLast.target].constructed
    /\ bLast.before
    /\ ~WasValidated(bLast.target)

\* C23: WasValidated() is false for every FullBlock from its construction (by
\* the header-and-body constructor, the default constructor or Deserialize)
\* until MarkAsValidated is called on it or it is copy- or move-constructed or
\* assigned from a block whose flag is true; and the flag goes from true to
\* false only by assignment from an unvalidated block.
C23_FalseUntilMarked ==
    /\ \A o \in ObjectIds :
          (objects[o].constructed /\ WasValidated(o)) => objects[o].justified
    /\ FlagCleared => (bLast.op \in Assignments /\ ~bLast.sourceFlag)

\* Every object but a default-initialized one has the flag false until it is
\* marked or takes it from a block whose flag is true.
FalseUntilMarkedUnlessDefaultInitialized ==
    /\ \A o \in ObjectIds :
          (objects[o].constructed /\ WasValidated(o) /\ ~objects[o].justified)
              => objects[o].origin = "default-initialized"
    /\ FlagCleared => (bLast.op \in Assignments /\ ~bLast.sourceFlag)

\* In every step the flag of a constructed object goes from true to false only
\* in that object's assignment from a block whose flag is false.
FlagOnlyClearedByAssignment ==
    [][\A o \in ObjectIds :
          (objects[o].constructed /\ objects'[o].constructed
               /\ objects[o].m_validated /\ ~objects'[o].m_validated)
              => (bLast'.op \in Assignments /\ bLast'.target = o /\ ~bLast'.sourceFlag)]_vars

\* A default-constructed block reports that it was validated, with
\* MarkAsValidated never called and no block to take the flag from.
DefaultConstructedReportsValidated ==
    /\ bLast.op = "FullBlock()"
    /\ WasValidated(bLast.target)
    /\ \A o \in ObjectIds \ {bLast.target} : ~objects[o].constructed

\* A marked block was assigned from an unvalidated one and its flag is false.
ClearedByAssignment ==
    /\ FlagCleared
    /\ bLast.op \in Assignments
    /\ objects[bLast.source].origin = "FullBlock(header, body)"

====
